---- MODULE Spec2Model ----
(***************************************************************************)
(* Reconciliation engine of FullAMIUpdate: the service-record pass of      *)
(* IssuesProcessing.py and the cascading-option pass of                    *)
(* sync_cdl_combined.py, modelled as state machines.                       *)
(*                                                                         *)
(* Text values are sequences of one-character strings, so that strip(),    *)
(* lower(), startswith(), split() and slicing are computed character by    *)
(* character.  Python's None is the one-element sequence None, which no    *)
(* text value equals.                                                      *)
(***************************************************************************)
EXTENDS Integers, Sequences, FiniteSets, TLC

VARIABLES
    \* ---- summary derivation of _compare_fields, applied repeatedly
    dSummary,      \* the tracked item's summary
    dStatus,       \* the record's operational_status
    dUpdates,      \* sequence of the summary updates emitted so far
    dStep,         \* number of derivations applied
    \* ---- service pass (sync_business_services_from_json_optimized)
    jira,          \* remote tracked items, in search order
    records,       \* the export's records
    DRY_RUN,       \* config_utils.DRY_RUN
    userFound,     \* whether the user search finds the mandatory reporter
    MANDATORY_REPORTER_ID,
    pc,            \* position of the pass
    passNo,        \* number of the running pass
    issues_cache,  \* sys_id index built by the load
    name_cache,    \* name index built by the load
    issues_to_clean,
    idx,           \* loop index of STEP 4 / STEP 5
    stats,
    ops,           \* operations of this pass, in order
    requests,      \* remote requests of this pass, in order
    prevOps,       \* operations of the previous pass
    failures,      \* number of requests the server has failed so far
    \* sync_cdl_combined.py
    MODE,               \* "diagnostic" or "apply"
    business_domains,   \* u_cmdb_ci_business_domain.json
    services,           \* cmdb_ci_service.json
    remote_options,     \* the options of the cascading field held by Jira
    next_id,            \* the id Jira gives to the next option it creates
    cascade_structure,  \* the target tree
    planned_services,   \* normalized names of the status-20 services
    current_structure,  \* the current tree, as fetched at the start of the run
    cpc,                \* the step the script has reached
    runNo,              \* number of the running execution of the script
    rows,               \* the log_full calls of the running execution
    calls,              \* the requests sent by the running execution
    csv,                \* the rows of sync_report.csv
    prevRows,           \* the log_full calls of the previous execution
    \* jira_utils.update_issue, one call
    uScript,       \* what the server answers to the 1st, 2nd, 3rd PUT
    uAttempt,      \* the loop variable attempt
    uSent,         \* number of PUT requests sent
    uWaits,        \* the time.sleep(retry_delay) calls, in order
    uPaced,        \* whether time.sleep(RATE_LIMIT_DELAY) was called
    uContext,      \* number of log_error_with_context calls
    uResult,       \* the value returned
    uPc,           \* "idle", "run" or "done"
    \* the paginated readers, one call
    reader,        \* the function that is called
    pages,         \* what the server answers to the 1st, 2nd, ... page request
    fetched,       \* number of page requests sent
    all_items,     \* the records accumulated so far (all_issues, all_options, all_opts)
    readResult,    \* the records the call returns
    rpc,           \* "idle", "run", "done" or "raised"
    \* business_domain.py and the option-id step of main_workflow.py
    domains_data,            \* the records of the domain export
    AUTO_UPDATE_CONFLUENCE,  \* confluence.auto_update_table
    page,                    \* the table of the Confluence page
    tickets,                 \* the Business Service issues held by Jira
    automation_table,        \* the mapping loaded at the start of the pass
    domain_ids,              \* list(unique_domain_ids)
    domStats,
    domRequests,             \* the remote requests sent, in order
    dompc,                   \* position of the pass
    domIdx,                  \* loop index of the running step
    pageFaults,              \* number of page requests that have failed so far
    \* business_domain.py: the cache of load_automation_rules_table_from_confluence
    _DOMAIN_CACHE,           \* <<>> for None, else <<the mapping>>
    _CACHE_TIMESTAMP,        \* time.time() at the load that filled the cache
    clock,                   \* time.time()
    lastCall,                \* the last call of the function, <<>> before the first
    lastLoad                 \* the last load that succeeded, <<>> before the first

deriveVars == <<dSummary, dStatus, dUpdates, dStep>>
serviceVars == <<jira, records, DRY_RUN, userFound, MANDATORY_REPORTER_ID, pc, passNo,
                 issues_cache, name_cache, issues_to_clean, idx, stats, ops, requests,
                 prevOps, failures>>
cascadeVars == <<MODE, business_domains, services, remote_options, next_id,
                 cascade_structure, planned_services, current_structure, cpc, runNo, rows,
                 calls, csv, prevRows>>
updateVars == <<uScript, uAttempt, uSent, uWaits, uPaced, uContext, uResult, uPc>>
readerVars == <<reader, pages, fetched, all_items, readResult, rpc>>
domainVars == <<domains_data, AUTO_UPDATE_CONFLUENCE, page, tickets, automation_table,
                domain_ids, domStats, domRequests, dompc, domIdx, pageFaults>>
cacheVars == <<_DOMAIN_CACHE, _CACHE_TIMESTAMP, clock, lastCall, lastLoad>>
vars == <<deriveVars, serviceVars, cascadeVars, updateVars, readerVars, domainVars,
          cacheVars>>

\* what the service pass leaves alone
NotService == <<deriveVars, cascadeVars, updateVars, readerVars, domainVars, cacheVars>>

\* what the cascade script leaves alone
NotCascade == <<deriveVars, serviceVars, updateVars, readerVars, domainVars, cacheVars>>

\* what the summary rule leaves alone
NotDerive == <<serviceVars, cascadeVars, updateVars, readerVars, domainVars, cacheVars>>

\* what one call of update_issue leaves alone
NotUpdate == <<deriveVars, serviceVars, cascadeVars, readerVars, domainVars, cacheVars>>

\* what one call of a paginated reader leaves alone
NotReader == <<deriveVars, serviceVars, cascadeVars, updateVars, domainVars, cacheVars>>

\* what the domain pass leaves alone
NotDomain == <<deriveVars, serviceVars, cascadeVars, updateVars, readerVars, cacheVars>>

\* the mapping cache is as the module leaves it when imported; a pass calls the
\* load once, so the passes are followed without it
CacheIdle ==
    /\ _DOMAIN_CACHE = <<>>
    /\ _CACHE_TIMESTAMP = 0
    /\ clock = 0
    /\ lastCall = <<>>
    /\ lastLoad = <<>>

\* the domain pass is not running
DomainIdle ==
    /\ domains_data = <<>>
    /\ AUTO_UPDATE_CONFLUENCE = FALSE
    /\ page = [table |-> FALSE, rows |-> <<>>]
    /\ tickets = <<>>
    /\ automation_table = <<>>
    /\ domain_ids = <<>>
    /\ domStats = <<>>
    /\ domRequests = <<>>
    /\ dompc = "idle"
    /\ domIdx = 1
    /\ pageFaults = 0

\* no call of update_issue or of a paginated reader is being followed
UpdateIdle ==
    /\ uScript = <<>>
    /\ uAttempt = 0
    /\ uSent = 0
    /\ uWaits = <<>>
    /\ uPaced = FALSE
    /\ uContext = 0
    /\ uResult = "None"
    /\ uPc = "idle"
    /\ reader = "none"
    /\ pages = <<>>
    /\ fetched = 0
    /\ all_items = <<>>
    /\ readResult = <<>>
    /\ rpc = "idle"

\* the cascade script is not running
CascadeIdle ==
    /\ MODE = "diagnostic"
    /\ business_domains = <<>>
    /\ services = <<>>
    /\ remote_options = <<>>
    /\ next_id = 0
    /\ cascade_structure = <<>>
    /\ planned_services = {}
    /\ current_structure = <<>>
    /\ cpc = "idle"
    /\ runNo = 0
    /\ rows = <<>>
    /\ calls = <<>>
    /\ csv = <<>>
    /\ prevRows = <<>>

----------------------------------------------------------------------------
(* Text *)

None == <<"None">>

\* a key that a dict does not hold
Absent == <<"Absent">>

\* Python truthiness of an optional text value: None and "" are falsy.
Truthy(v) == v /= None /\ v /= <<>>

\* s[n:]
Drop(s, n) == IF n >= Len(s) THEN <<>> ELSE SubSeq(s, n + 1, Len(s))

\* s[:n]
Take(s, n) == SubSeq(s, 1, IF n < Len(s) THEN n ELSE Len(s))

StartsWith(s, p) == Len(s) >= Len(p) /\ SubSeq(s, 1, Len(p)) = p

IsSpace(c) == c \in {" ", "\t"}

RECURSIVE LStrip(_)
LStrip(s) == IF s /= <<>> /\ IsSpace(Head(s)) THEN LStrip(Tail(s)) ELSE s

RECURSIVE RStrip(_)
RStrip(s) ==
    IF s /= <<>> /\ IsSpace(s[Len(s)]) THEN RStrip(SubSeq(s, 1, Len(s) - 1)) ELSE s

\* str.strip()
Strip(s) == RStrip(LStrip(s))

UpperChars == <<"A", "B", "C", "D", "E", "F", "G", "H", "I", "J", "K", "L", "M",
               "N", "O", "P", "Q", "R", "S", "T", "U", "V", "W", "X", "Y", "Z">>
LowerChars == <<"a", "b", "c", "d", "e", "f", "g", "h", "i", "j", "k", "l", "m",
               "n", "o", "p", "q", "r", "s", "t", "u", "v", "w", "x", "y", "z">>

LowerChar(c) ==
    IF \E i \in 1..Len(UpperChars) : UpperChars[i] = c
    THEN LowerChars[CHOOSE i \in 1..Len(UpperChars) : UpperChars[i] = c]
    ELSE c

\* str.lower()
Lower(s) == [i \in 1..Len(s) |-> LowerChar(s[i])]

\* the positions at which p occurs in s
Occurrences(s, p) == {i \in 1..Len(s) : StartsWith(Drop(s, i - 1), p)}

\* s.split(sep)[0]: the text before the first occurrence of sep
SplitFirst(s, sep) ==
    IF Occurrences(s, sep) = {} THEN s
    ELSE LET first == CHOOSE i \in Occurrences(s, sep) : \A j \in Occurrences(s, sep) : i <= j
         IN  SubSeq(s, 1, first - 1)

\* p in s
Contains(s, p) == p = <<>> \/ Occurrences(s, p) /= {}

\* the sequences of seqs, one after the other
RECURSIVE Flatten(_)
Flatten(seqs) == IF seqs = <<>> THEN <<>> ELSE Head(seqs) \o Flatten(Tail(seqs))

RetiredDash == <<"R", "e", "t", "i", "r", "e", "d", "-">>
RetiredSpaced == <<"R", "e", "t", "i", "r", "e", "d", " ", "-", " ">>
SummarySep == <<" ", "|", " ">>
SummaryLimit == 255

----------------------------------------------------------------------------
(* _compare_fields: the summary rule *)

\* the while loop that removes every leading "Retired-" / "Retired - "
RECURSIVE BaseSummary(_)
BaseSummary(s) ==
    IF StartsWith(s, RetiredSpaced) THEN BaseSummary(Strip(Drop(s, Len(RetiredSpaced))))
    ELSE IF StartsWith(s, RetiredDash) THEN BaseSummary(Strip(Drop(s, Len(RetiredDash))))
    ELSE s

ExpectedRetired_Spaced(current_summary) ==
    Take(RetiredSpaced \o BaseSummary(current_summary), SummaryLimit)

ExpectedRetired(current_summary) ==
    Take(RetiredDash \o BaseSummary(current_summary), SummaryLimit)

\* updates["summary"] of _compare_fields, None when the key is not set
SummaryUpdate(current_summary, operational_status) ==
    IF operational_status = <<"6">>
    THEN IF current_summary /= ExpectedRetired(current_summary)
         THEN ExpectedRetired(current_summary) ELSE None
    ELSE IF current_summary /= BaseSummary(current_summary)
         THEN Take(BaseSummary(current_summary), SummaryLimit) ELSE None

----------------------------------------------------------------------------
(* Business_service.py / common_functions.py helpers *)

map_operational_status(status_code) ==
    IF status_code = None THEN None
    ELSE IF status_code = <<"1">>
    THEN <<"O", "p", "e", "r", "a", "t", "i", "o", "n", "a", "l", " ", "(", "1", ")">>
    ELSE IF status_code = <<"2">>
    THEN <<"N", "o", "n", "-", "O", "p", "e", "r", "a", "t", "i", "o", "n", "a", "l", " ",
           "(", "2", ")">>
    ELSE IF status_code = <<"3">>
    THEN <<"R", "e", "p", "a", "i", "r", " ", "i", "n", " ", "P", "r", "o", "g", "r", "e",
           "s", "s", " ", "(", "3", ")">>
    ELSE IF status_code = <<"4">>
    THEN <<"D", "R", " ", "S", "t", "a", "n", "d", "b", "y", " ", "(", "4", ")">>
    ELSE IF status_code = <<"5">> THEN <<"R", "e", "a", "d", "y", " ", "(", "5", ")">>
    ELSE IF status_code = <<"6">> THEN <<"R", "e", "t", "i", "r", "e", "d", " ", "(", "6", ")">>
    ELSE IF status_code = <<"2", "0">>
    THEN <<"P", "l", "a", "n", "n", "e", "d", " ", "(", "2", "0", ")">>
    ELSE None

\* record.get(k)
RGet(record, k) == IF record[k] = Absent THEN None ELSE record[k]

\* record.get(k, default)
RGetD(record, k, default) == IF record[k] = Absent THEN default ELSE record[k]

AllName == <<"A", "l", "l">>
Unknown == <<"U", "n", "k", "n", "o", "w", "n">>
should_exclude_item(item) == RGetD(item, "name", <<>>) = AllName

_normalize_value(value) ==
    IF value = None THEN None
    ELSE IF Strip(value) /= <<>> THEN Strip(value) ELSE None

----------------------------------------------------------------------------
(* load_all_business_services_with_fields: the two indices *)

VERIFICATION_LABEL == "business-service-verified"

\* the name part of a summary, each Retired prefix removed once, in the loop's order
CleanName(summary) ==
    LET n0 == SplitFirst(summary, SummarySep)
        n1 == IF StartsWith(n0, RetiredDash) THEN Strip(Drop(n0, Len(RetiredDash))) ELSE n0
        n2 == IF StartsWith(n1, RetiredSpaced) THEN Strip(Drop(n1, Len(RetiredSpaced))) ELSE n1
    IN  n2

\* A dict is a sequence of [k, v] entries in insertion order.
DHas(d, k) == \E i \in DOMAIN d : d[i].k = k

\* d[k]
DVal(d, k) == d[CHOOSE i \in DOMAIN d : d[i].k = k].v

\* d[k] = v: a key already present keeps its position
DSet(d, k, v) ==
    IF DHas(d, k) THEN [i \in DOMAIN d |-> IF d[i].k = k THEN [k |-> k, v |-> v] ELSE d[i]]
    ELSE Append(d, [k |-> k, v |-> v])

SysIdOf(issue) == issue.fields["business_service_id"]
NameKeyOf(issue) == Lower(CleanName(issue.fields["summary"]))
SysIdKey_ByName(issue) == issue.fields["business_service_name"]

SysIdKey(issue) == SysIdOf(issue)

\* the loop over all_issues that fills one index; by_name selects name_indexed_issues
RECURSIVE BuildIndex(_, _, _)
BuildIndex(all_issues, by_name, d) ==
    IF all_issues = <<>> THEN d
    ELSE LET issue == Head(all_issues)
             k == IF by_name THEN NameKeyOf(issue) ELSE SysIdKey(issue)
         IN  BuildIndex(Tail(all_issues), by_name,
                        IF Truthy(k) THEN DSet(d, k, issue) ELSE d)

indexed_issues(all_issues) == BuildIndex(all_issues, FALSE, <<>>)
name_indexed_issues(all_issues) == BuildIndex(all_issues, TRUE, <<>>)

----------------------------------------------------------------------------
(* _compare_fields *)

\* custom field -> [json_key, type, mapper], in the order of field_mappings
field_mappings ==
    <<[field |-> "business_domain_id", json_key |-> "u_business_domain", type |-> "text",
       mapper |-> FALSE],
      [field |-> "business_service_name", json_key |-> "name", type |-> "text",
       mapper |-> FALSE],
      [field |-> "business_service_short_name", json_key |-> "u_short_service_id",
       type |-> "text", mapper |-> FALSE],
      [field |-> "business_service_status", json_key |-> "operational_status",
       type |-> "select", mapper |-> TRUE],
      [field |-> "business_service_usage", json_key |-> "used_for", type |-> "select",
       mapper |-> FALSE],
      [field |-> "business_service_classification", json_key |-> "service_classification",
       type |-> "select", mapper |-> FALSE]>>

NewValue(config, record) ==
    LET raw == RGet(record, config.json_key)
    IN  _normalize_value(IF config.mapper /\ raw /= None
                         THEN map_operational_status(raw) ELSE raw)

\* a comparison that finds a difference wherever the record holds a value
FieldDiffers_Always(config, fields, record) == TRUE

FieldDiffers(config, fields, record) ==
    _normalize_value(fields[config.field]) /= NewValue(config, record)

\* the keys of updates set by the comparison loop
ChangedFields(fields, record) ==
    {field_mappings[i].field : i \in
        {j \in DOMAIN field_mappings :
            /\ FieldDiffers(field_mappings[j], fields, record)
            /\ Truthy(NewValue(field_mappings[j], record))}}

ConfigOf(field) ==
    field_mappings[CHOOSE i \in DOMAIN field_mappings : field_mappings[i].field = field]

_compare_fields(existing_issue, record) ==
    LET fields == existing_issue.fields
        changed == ChangedFields(fields, record)
        summ == SummaryUpdate(fields["summary"], RGet(record, "operational_status"))
        keys == changed \cup (IF summ /= None THEN {"summary"} ELSE {})
    IN  [k \in keys |-> IF k = "summary" THEN summ ELSE NewValue(ConfigOf(k), record)]

----------------------------------------------------------------------------
(* jira_utils.update_issue *)

MAX_RETRIES == 3

HttpErrors == {"400", "404", "429", "500"}

\* bool(response): requests.Response.__bool__ is response.ok
ResponseTruthy(r) == r \notin HttpErrors

\* The retry loop from the given attempt on, the server answering script[attempt + 1]
\* ("fault" is a transport fault).  result is the status returned, "None" on failure;
\* sent is the number of PUT requests issued.
RECURSIVE update_attempt(_, _)
update_attempt(script, attempt) ==
    IF attempt >= MAX_RETRIES THEN [result |-> "None", sent |-> attempt]
    ELSE LET r == script[attempt + 1]
         IN  IF r = "fault" THEN [result |-> "None", sent |-> attempt + 1]
             ELSE IF r = "429" /\ attempt < MAX_RETRIES - 1
                  THEN update_attempt(script, attempt + 1)
             ELSE IF r \in HttpErrors
                  THEN IF ResponseTruthy(r) /\ r /= "429"
                       THEN [result |-> "None", sent |-> attempt + 1]
                       ELSE IF attempt = MAX_RETRIES - 1
                            THEN [result |-> "None", sent |-> attempt + 1]
                            ELSE update_attempt(script, attempt + 1)
             ELSE [result |-> r, sent |-> attempt + 1]

\* a variant that returns the last status code when the retries are exhausted
update_issue_LastStatus(script) ==
    [update_attempt(script, 0) EXCEPT
        !.result = IF script[MAX_RETRIES] /= "fault"
                          /\ update_attempt(script, 0).sent = MAX_RETRIES
                   THEN script[MAX_RETRIES] ELSE @]
update_issue(script) == update_attempt(script, 0)

UniformScript(r) == [i \in 1..MAX_RETRIES |-> r]

\* the server behaviours a pass is run against
PassScripts == {UniformScript("200"), UniformScript("429")}
CreateResponses == {"201", "400"}

----------------------------------------------------------------------------
(* Tracked items and export records *)

FieldKeys == {"summary", "assignee", "reporter", "business_service_id",
              "business_domain_id", "business_service_name",
              "business_service_short_name", "business_service_status",
              "business_service_usage", "business_service_classification"}

ApiUser == <<"a", "p", "i">>
AccountId == <<"a", "c", "c">>
IssueKey(n) == <<"AMI", n>>

MkIssue(n, sys_id, summary, name, status, labelled) ==
    [key |-> IssueKey(n),
     labels |-> IF labelled THEN {VERIFICATION_LABEL} ELSE {},
     fields |-> [k \in FieldKeys |->
        CASE k = "summary" -> summary
          [] k = "reporter" -> ApiUser
          [] k = "business_service_id" -> sys_id
          [] k = "business_service_name" -> name
          [] k = "business_service_status" -> map_operational_status(status)
          [] OTHER -> None]]

RecordKeys == {"sys_id", "name", "operational_status", "u_business_domain",
               "u_short_service_id", "used_for", "service_classification",
               "short_description"}

MkRecord(sys_id, name, status) ==
    [k \in RecordKeys |->
        CASE k = "sys_id" -> sys_id
          [] k = "name" -> name
          [] k = "operational_status" -> status
          [] OTHER -> Absent]

\* Jira's answer to a successful PUT /issue/{key}
ApplyUpdate(issue, payload) ==
    [issue EXCEPT
        !.labels = (@ \cup payload.labels_add) \ payload.labels_remove,
        !.fields = [k \in FieldKeys |->
                        IF k \in DOMAIN payload.fields THEN payload.fields[k] ELSE @[k]]]

PutIssue(all_issues, key, payload) ==
    [i \in DOMAIN all_issues |->
        IF all_issues[i].key = key THEN ApplyUpdate(all_issues[i], payload)
        ELSE all_issues[i]]

\* Jira's answer to a successful POST /issue: the new item, with the next key
PostIssue(all_issues, payload) ==
    Append(all_issues,
           [key |-> IssueKey(Len(all_issues) + 1),
            labels |-> payload.labels_add,
            fields |-> [k \in FieldKeys |->
                IF k \in DOMAIN payload.fields THEN payload.fields[k]
                ELSE IF k = "reporter" THEN ApiUser ELSE None]])

----------------------------------------------------------------------------
(* Inputs of the service pass *)

MaxRecords == 2
MaxPasses == 2
MaxFailures == 1

Pay == <<"P", "a", "y">>
PayUpperPadded == <<"P", "A", "Y", " ">>
Old == <<"O", "l", "d">>
LongName == [i \in 1..(SummaryLimit - Len(SummarySep) - Len(<<"A", "1">>)) |-> "x"]

Summary(name, sys_id) == name \o SummarySep \o sys_id

RecordPool ==
    {MkRecord(<<"A", "1">>, Pay, status) : status \in {<<"1">>, <<"6">>}}
    \cup {MkRecord(<<"B", "2">>, name, <<"1">>) : name \in {Pay, PayUpperPadded}}
    \cup {MkRecord(<<"A", "1">>, AllName, <<"1">>), MkRecord(Absent, Pay, <<"1">>),
          MkRecord(<<"B", "2">>, None, <<"1">>)}

Exports == UNION {[1..n -> RecordPool] : n \in 0..MaxRecords}

FirstItems ==
    {MkIssue(1, <<"A", "1">>, Summary(Pay, <<"A", "1">>), Pay, <<"1">>, FALSE),
     MkIssue(1, <<"A", "1">>, RetiredDash \o Summary(Pay, <<"A", "1">>), Pay, <<"6">>, FALSE),
     MkIssue(1, <<"A", "1">>, Summary(LongName, <<"A", "1">>), LongName, <<"1">>, TRUE)}

SecondItems ==
    {MkIssue(2, <<"C", "3">>, Summary(Old, <<"C", "3">>), Old, <<"1">>, TRUE),
     MkIssue(2, <<"C", "3">>, Summary(Pay, <<"C", "3">>), Old, <<"1">>, TRUE)}

InitialJira ==
    {<<>>} \cup {<<a>> : a \in FirstItems}
           \cup {<<a, b>> : a \in {i \in FirstItems : i.labels = {}}, b \in SecondItems}

----------------------------------------------------------------------------
(* sync_business_services_from_json_optimized *)

NoStats == [created |-> 0, updated |-> 0, excluded |-> 0, unchanged |-> 0,
            labels_removed |-> 0, errors |-> 0, returned |-> -1]

NoPayload == [labels_add |-> {}, labels_remove |-> {}, comment |-> FALSE,
              has_fields |-> FALSE, fields |-> <<>>]

Request(method, path, key) ==
    [method |-> method, path |-> path, key |-> key, op |-> Len(ops) + 1]

Repeat(x, n) == [i \in 1..n |-> x]

\* get_mandatory_reporter_id: the memo, the id it returns and the lookup it sends
ReporterLookup == MANDATORY_REPORTER_ID = None
ReporterId == IF ReporterLookup
              THEN (IF userFound THEN AccountId ELSE None)
              ELSE MANDATORY_REPORTER_ID
ReporterRequests ==
    IF ReporterLookup THEN <<Request("GET", "user/search", None)>> ELSE <<>>

\* a return that reports no error whatever the pass met
Return_Zero(value) == [stats EXCEPT !.returned = 0]

\* the value returned: stats['errors'], or 1 / total_errors + 1 on an early return
Return(value) == [stats EXCEPT !.returned = value]

\* the server fails at most MaxFailures requests of a history
MayFail == failures < MaxFailures
Failed(bad) == failures' = IF bad THEN failures + 1 ELSE failures
Scripts == {script \in PassScripts : MayFail \/ update_issue(script).result /= "None"}
Faults == {FALSE} \cup (IF MayFail THEN {TRUE} ELSE {})

\* STEP 1: load the indices
SvcLoadCache ==
    /\ UNCHANGED NotService
    /\ pc = "start"
    /\ requests' = Append(requests, [method |-> "POST", path |-> "search/jql",
                                     key |-> None, op |-> 0])
    /\ \E fault \in Faults :
         LET cache == IF fault THEN <<>> ELSE indexed_issues(jira)
             names == IF fault THEN <<>> ELSE name_indexed_issues(jira)
         IN  /\ issues_cache' = cache
             /\ Failed(fault)
             /\ name_cache' = names
             /\ IF cache = <<>>
                THEN pc' = "done" /\ stats' = Return(1)
                ELSE pc' = "json" /\ stats' = stats
    /\ UNCHANGED <<jira, records, DRY_RUN, userFound, MANDATORY_REPORTER_ID, passNo,
                   issues_to_clean, idx, ops, prevOps>>

\* STEP 2: read the export file
SvcLoadJson ==
    /\ UNCHANGED NotService
    /\ pc = "json"
    /\ \E unreadable \in Faults :
         /\ Failed(unreadable)
         /\ IF unreadable THEN pc' = "done" /\ stats' = Return(1)
            ELSE pc' = "identify" /\ stats' = stats
    /\ UNCHANGED <<jira, records, DRY_RUN, userFound, MANDATORY_REPORTER_ID, passNo,
                   issues_cache, name_cache, issues_to_clean, idx, ops, requests, prevOps>>

json_sys_ids(recs) ==
    {RGet(recs[i], "sys_id") : i \in {j \in DOMAIN recs : Truthy(RGet(recs[j], "sys_id"))}}

\* the loop over issues_cache.items() that collects the keys to clean
RECURSIVE IssuesToClean(_, _)
IssuesToClean(cache, ids) ==
    IF cache = <<>> THEN <<>>
    ELSE LET e == Head(cache)
         IN  (IF e.k \notin ids /\ VERIFICATION_LABEL \in e.v.labels
              THEN <<e.v.key>> ELSE <<>>)
             \o IssuesToClean(Tail(cache), ids)

AfterRecord_CleanupFirst(i, to_clean) ==
    IF to_clean /= <<>> THEN "clean"
    ELSE IF i < Len(records) THEN "process" ELSE "done"

\* where the pass stands once record i (or cleanup i) has been handled
AfterRecord(i, to_clean) ==
    IF i < Len(records) THEN "process"
    ELSE IF to_clean /= <<>> THEN "clean" ELSE "done"

\* STEP 3: identify the issues to clean up
SvcIdentify ==
    /\ UNCHANGED NotService
    /\ pc = "identify"
    /\ issues_to_clean' = IssuesToClean(issues_cache, json_sys_ids(records))
    /\ pc' = AfterRecord(0, issues_to_clean')
    /\ idx' = 1
    /\ stats' = IF pc' = "done" THEN Return(stats.errors) ELSE stats
    /\ UNCHANGED <<jira, records, DRY_RUN, userFound, MANDATORY_REPORTER_ID, passNo,
                   issues_cache, name_cache, ops, requests, prevOps, failures>>

\* the lookup of lines 269-273: by sys_id, then by lowercased name; <<>> when not found
LookupExisting(id_index, name_index, sys_id, name) ==
    IF DHas(id_index, sys_id) THEN <<DVal(id_index, sys_id)>>
    ELSE IF DHas(name_index, Lower(name)) THEN <<DVal(name_index, Lower(name))>>
    ELSE <<>>

\* the payload built by _update_business_service_optimized
UpdatePayload(existing_issue, record, rep_id) ==
    LET compared == _compare_fields(existing_issue, record)
        keys == DOMAIN compared \cup {"assignee"}
                    \cup (IF Truthy(rep_id) THEN {"reporter"} ELSE {})
        fields_to_update ==
            [k \in keys |-> IF k = "assignee" THEN None
                            ELSE IF k = "reporter" THEN rep_id
                            ELSE compared[k]]
    IN  [labels_add |-> {VERIFICATION_LABEL}, labels_remove |-> {},
         comment |-> (DOMAIN fields_to_update /= {}),
         has_fields |-> (DOMAIN fields_to_update /= {}),
         fields |-> fields_to_update]

\* str(name) inside an f-string
Text(v) == IF v = None THEN <<"N", "o", "n", "e">> ELSE v

\* the payload built by create_business_service_issue
CreatePayload(record, rep_id) ==
    LET name == RGetD(record, "name", Unknown)
        sys_id == RGetD(record, "sys_id", Unknown)
        status == IF Truthy(RGet(record, "operational_status"))
                  THEN map_operational_status(RGet(record, "operational_status"))
                  ELSE None
        opt(field, json_key) == IF Truthy(RGet(record, json_key)) THEN {field} ELSE {}
        keys == {"summary", "assignee"}
                \cup (IF Truthy(rep_id) THEN {"reporter"} ELSE {})
                \cup opt("business_domain_id", "u_business_domain")
                \cup (IF sys_id /= Unknown THEN {"business_service_id"} ELSE {})
                \cup (IF name /= Unknown THEN {"business_service_name"} ELSE {})
                \cup opt("business_service_short_name", "u_short_service_id")
                \cup (IF Truthy(status) THEN {"business_service_status"} ELSE {})
                \cup opt("business_service_usage", "used_for")
                \cup opt("business_service_classification", "service_classification")
    IN  [labels_add |-> {VERIFICATION_LABEL}, labels_remove |-> {},
         comment |-> FALSE, has_fields |-> TRUE,
         fields |-> [k \in keys |->
            CASE k = "summary" -> Take(Text(name) \o SummarySep \o Text(sys_id), SummaryLimit)
              [] k = "assignee" -> None
              [] k = "reporter" -> rep_id
              [] k = "business_domain_id" -> RGet(record, "u_business_domain")
              [] k = "business_service_id" -> sys_id
              [] k = "business_service_name" -> name
              [] k = "business_service_short_name" -> RGet(record, "u_short_service_id")
              [] k = "business_service_status" -> status
              [] k = "business_service_usage" -> RGet(record, "used_for")
              [] OTHER -> RGet(record, "service_classification")]]

RemovePayload == [labels_add |-> {}, labels_remove |-> {VERIFICATION_LABEL},
                  comment |-> FALSE, has_fields |-> FALSE, fields |-> <<>>]

Op(kind, rec, key, payload, ok) ==
    [kind |-> kind, rec |-> rec, key |-> key, payload |-> payload, ok |-> ok]

Count(field) == [stats EXCEPT ![field] = @ + 1]

\* stats after an operation on record i, with the return value once the pass ends there
Finish(counted, next) ==
    IF next = "done" THEN [counted EXCEPT !.returned = counted.errors] ELSE counted

\* STEP 4, one record: exclusion, missing sys_id, lookup, then update or create
SvcProcessRecord ==
    /\ UNCHANGED NotService
    /\ pc = "process"
    /\ LET record == records[idx]
           sys_id == RGet(record, "sys_id")
           name == RGetD(record, "name", Unknown)
           next == AfterRecord(idx, issues_to_clean)
           found == LookupExisting(issues_cache, name_cache, sys_id, name)
       IN  /\ idx' = IF next = "process" THEN idx + 1 ELSE 1
           /\ IF should_exclude_item(record)
              THEN /\ ops' = Append(ops, Op("Excluded", idx, None, NoPayload, TRUE))
                   /\ stats' = Finish(Count("excluded"), next)
                   /\ pc' = next
                   /\ UNCHANGED <<jira, requests, MANDATORY_REPORTER_ID, failures>>
              ELSE IF ~Truthy(sys_id)
              THEN /\ ops' = Append(ops, Op("Error", idx, None, NoPayload, FALSE))
                   /\ stats' = Finish(Count("errors"), next)
                   /\ pc' = next
                   /\ UNCHANGED <<jira, requests, MANDATORY_REPORTER_ID, failures>>
              ELSE IF name = None /\ ~DHas(issues_cache, sys_id)
              THEN \* name.lower() raises: the outer handler returns total_errors + 1
                   /\ ops' = Append(ops, Op("Abort", idx, None, NoPayload, FALSE))
                   /\ stats' = Return(1)
                   /\ pc' = "done"
                   /\ UNCHANGED <<jira, requests, MANDATORY_REPORTER_ID, failures>>
              ELSE IF found /= <<>>
              THEN LET key == found[1].key
                       payload == UpdatePayload(found[1], record, ReporterId)
                   IN  /\ MANDATORY_REPORTER_ID' = ReporterId
                       /\ pc' = next
                       /\ IF DRY_RUN
                          THEN /\ ops' = Append(ops, Op("Update", idx, key, payload, TRUE))
                               /\ requests' = requests \o ReporterRequests
                               /\ stats' = Finish(Count("updated"), next)
                               /\ UNCHANGED <<jira, failures>>
                          ELSE \E script \in Scripts :
                                 LET res == update_issue(script)
                                     ok == res.result /= "None"
                                 IN  /\ Failed(~ok)
                                     /\ ops' = Append(ops, Op("Update", idx, key, payload, ok))
                                     /\ requests' = requests \o ReporterRequests
                                            \o Repeat(Request("PUT", "issue", key), res.sent)
                                     /\ stats' = Finish(Count(IF ok THEN "updated"
                                                              ELSE "errors"), next)
                                     /\ jira' = IF ok THEN PutIssue(jira, key, payload)
                                                ELSE jira
              ELSE LET payload == CreatePayload(record, ReporterId)
                   IN  /\ MANDATORY_REPORTER_ID' = ReporterId
                       /\ pc' = next
                       /\ IF DRY_RUN
                          THEN /\ ops' = Append(ops, Op("Create", idx, <<"DRY-RUN-KEY">>,
                                                      payload, TRUE))
                               /\ requests' = requests \o ReporterRequests
                               /\ stats' = Finish(Count("created"), next)
                               /\ UNCHANGED <<jira, failures>>
                          ELSE \E response \in {r \in CreateResponses :
                                                    MayFail \/ ResponseTruthy(r)} :
                                 LET ok == ResponseTruthy(response)
                                     key == IssueKey(Len(jira) + 1)
                                 IN  /\ Failed(~ok)
                                     /\ ops' = Append(ops, Op("Create", idx,
                                                  IF ok THEN key ELSE None, payload, ok))
                                     /\ requests' = requests \o ReporterRequests
                                            \o <<Request("POST", "issue", None)>>
                                            \o (IF ok THEN <<Request("POST", "comment", key)>>
                                                ELSE <<>>)
                                     /\ stats' = Finish(Count(IF ok THEN "created"
                                                              ELSE "errors"), next)
                                     /\ jira' = IF ok THEN PostIssue(jira, payload) ELSE jira
    /\ UNCHANGED <<records, DRY_RUN, userFound, passNo, issues_cache, name_cache,
                   issues_to_clean, prevOps>>

\* STEP 5, one obsolete issue: _remove_label_only
SvcCleanIssue ==
    /\ UNCHANGED NotService
    /\ pc = "clean"
    /\ LET key == issues_to_clean[idx]
           next == IF idx < Len(issues_to_clean) THEN "clean" ELSE "done"
       IN  /\ idx' = IF next = "clean" THEN idx + 1 ELSE 1
           /\ pc' = next
           /\ IF DRY_RUN
              THEN /\ ops' = Append(ops, Op("LabelRemove", 0, key, RemovePayload, TRUE))
                   /\ stats' = Finish(Count("labels_removed"), next)
                   /\ UNCHANGED <<jira, requests, failures>>
              ELSE \E script \in Scripts :
                     LET res == update_issue(script)
                         ok == res.result /= "None"
                     IN  /\ Failed(~ok)
                         /\ ops' = Append(ops, Op("LabelRemove", 0, key, RemovePayload, ok))
                         /\ requests' = requests
                                \o Repeat(Request("PUT", "issue", key), res.sent)
                         /\ stats' = Finish(Count(IF ok THEN "labels_removed"
                                                  ELSE "errors"), next)
                         /\ jira' = IF ok THEN PutIssue(jira, key, RemovePayload) ELSE jira
    /\ UNCHANGED <<records, DRY_RUN, userFound, MANDATORY_REPORTER_ID, passNo,
                   issues_cache, name_cache, issues_to_clean, prevOps>>

\* the next run of the workflow: a new process over the same export
SvcNextPass ==
    /\ UNCHANGED NotService
    /\ pc = "done"
    /\ passNo < MaxPasses
    /\ passNo' = passNo + 1
    /\ pc' = "start"
    /\ prevOps' = ops
    /\ ops' = <<>>
    /\ requests' = <<>>
    /\ stats' = NoStats
    /\ MANDATORY_REPORTER_ID' = None
    /\ issues_cache' = <<>>
    /\ name_cache' = <<>>
    /\ issues_to_clean' = <<>>
    /\ idx' = 1
    /\ UNCHANGED <<jira, records, DRY_RUN, userFound, failures>>

DeriveIdle ==
    /\ dSummary = <<>>
    /\ dStatus = None
    /\ dUpdates = <<>>
    /\ dStep = 0

InitService ==
    /\ CacheIdle
    /\ DomainIdle
    /\ DeriveIdle
    /\ CascadeIdle
    /\ UpdateIdle
    /\ jira \in InitialJira
    /\ records \in Exports
    /\ DRY_RUN \in BOOLEAN
    /\ userFound \in BOOLEAN
    /\ MANDATORY_REPORTER_ID = None
    /\ pc = "start"
    /\ passNo = 1
    /\ issues_cache = <<>>
    /\ name_cache = <<>>
    /\ issues_to_clean = <<>>
    /\ idx = 1
    /\ stats = NoStats
    /\ ops = <<>>
    /\ requests = <<>>
    /\ prevOps = <<>>
    /\ failures = 0

NextService ==
    \/ SvcLoadCache
    \/ SvcLoadJson
    \/ SvcIdentify
    \/ SvcProcessRecord
    \/ SvcCleanIssue
    \/ SvcNextPass

SpecService == InitService /\ [][NextService]_vars

----------------------------------------------------------------------------
(* The summary rule applied to its own output *)

MaxPieces == 3
MaxDerive == 2

Filler == [i \in 1..(SummaryLimit - Len(RetiredDash) - 1) |-> "x"]
Pieces == {RetiredDash, RetiredSpaced, <<" ">>, <<"a">>, SummarySep, Filler}

SummaryInputs == {Flatten(parts) : parts \in UNION {[1..n -> Pieces] : n \in 0..MaxPieces}}

ServiceIdle ==
    /\ jira = <<>>
    /\ records = <<>>
    /\ DRY_RUN = TRUE
    /\ userFound = FALSE
    /\ MANDATORY_REPORTER_ID = None
    /\ pc = "idle"
    /\ passNo = 0
    /\ issues_cache = <<>>
    /\ name_cache = <<>>
    /\ issues_to_clean = <<>>
    /\ idx = 1
    /\ stats = NoStats
    /\ ops = <<>>
    /\ requests = <<>>
    /\ prevOps = <<>>
    /\ failures = 0

InitDerive ==
    /\ CacheIdle
    /\ DomainIdle
    /\ ServiceIdle
    /\ CascadeIdle
    /\ UpdateIdle
    /\ dSummary \in SummaryInputs
    /\ dStatus \in {<<"1">>, <<"6">>}
    /\ dUpdates = <<>>
    /\ dStep = 0

\* one comparison of the item against the record; Jira stores the summary it is sent
DeriveApply ==
    /\ dStep < MaxDerive
    /\ dStep' = dStep + 1
    /\ dUpdates' = Append(dUpdates, SummaryUpdate(dSummary, dStatus))
    /\ dSummary' = IF SummaryUpdate(dSummary, dStatus) = None THEN dSummary
                   ELSE SummaryUpdate(dSummary, dStatus)
    /\ UNCHANGED <<dStatus, NotDerive>>

SpecDerive == InitDerive /\ [][DeriveApply]_vars

\* C3: for a record with operational_status "6", the summary derived from any current
\* summary is a fixed point of the derivation (a second comparison emits no summary
\* update) and never contains "Retired-Retired-".
C3_RetiredSummaryIsFixedPoint ==
    (dStep >= 1 /\ dStatus = <<"6">>) =>
        /\ SummaryUpdate(dSummary, dStatus) = None
        /\ ~Contains(dSummary, RetiredDash \o RetiredDash)

----------------------------------------------------------------------------
(* sync_cdl_combined.py: the cascade option tree *)

\* str.strip().lower()
normalize_name(name_norm) == Lower(Strip(name_norm))

DigitChars == <<"0", "1", "2", "3", "4", "5", "6", "7", "8", "9">>

\* code point of a character of a name or an identifier (letters, digits, blanks)
Ord(c) ==
    IF c = " " THEN 32
    ELSE IF \E i \in DOMAIN DigitChars : DigitChars[i] = c
         THEN 47 + (CHOOSE i \in DOMAIN DigitChars : DigitChars[i] = c)
    ELSE IF \E i \in DOMAIN UpperChars : UpperChars[i] = c
         THEN 64 + (CHOOSE i \in DOMAIN UpperChars : UpperChars[i] = c)
         ELSE 96 + (CHOOSE i \in DOMAIN LowerChars : LowerChars[i] = c)

\* a < b on str
RECURSIVE StrLess(_, _)
StrLess(a, b) ==
    IF b = <<>> THEN FALSE
    ELSE IF a = <<>> THEN TRUE
    ELSE IF Head(a) = Head(b) THEN StrLess(Tail(a), Tail(b))
    ELSE Ord(Head(a)) < Ord(Head(b))

\* the place of entry e in a list sorted by key: after every entry that is not greater
RECURSIVE Insert(_, _)
Insert(sorted, e) ==
    IF sorted = <<>> THEN <<e>>
    ELSE IF StrLess(e.key, Head(sorted).key) THEN <<e>> \o sorted
    ELSE <<Head(sorted)>> \o Insert(Tail(sorted), e)

\* sorted(entries, key=...): stable
RECURSIVE Sorted(_)
Sorted(entries) ==
    IF entries = <<>> THEN <<>>
    ELSE Insert(Sorted(SubSeq(entries, 1, Len(entries) - 1)), entries[Len(entries)])

\* sorted(children, key=lambda x: x["name"].lower())
SortChildren(children) ==
    LET s == Sorted([i \in DOMAIN children |->
                        [key |-> Lower(children[i].name), val |-> children[i]]])
    IN  [i \in DOMAIN s |-> s[i].val]

\* sorted(d.items())
SortItems(d) ==
    LET s == Sorted([i \in DOMAIN d |-> [key |-> d[i].k, val |-> d[i]]])
    IN  [i \in DOMAIN s |-> s[i].val]

\* {d["sys_id"]: d["name"] for d in business_domains if d.get("sys_id") and d.get("name")}
RECURSIVE DomainMap(_, _)
DomainMap(domains, m) ==
    IF domains = <<>> THEN m
    ELSE LET d == Head(domains)
         IN  DomainMap(Tail(domains),
                       IF Truthy(d.sys_id) /\ Truthy(d.name) THEN DSet(m, d.sys_id, d.name)
                       ELSE m)

\* the loop over services: t.structure is cascade_structure, t.planned planned_services
RECURSIVE BuildTarget(_, _, _)
BuildTarget(svcs, domain_map, t) ==
    IF svcs = <<>> THEN t
    ELSE LET service == Head(svcs)
             parent_name == IF DHas(domain_map, service.u_business_domain)
                            THEN DVal(domain_map, service.u_business_domain) ELSE None
             status == service.operational_status
             entry == [name |-> service.name, disabled |-> (status = <<"6">>)]
             siblings == IF DHas(t.structure, parent_name)
                         THEN DVal(t.structure, parent_name) ELSE <<>>
         IN  BuildTarget(Tail(svcs), domain_map,
                IF ~Truthy(parent_name) THEN t
                ELSE IF status = <<"2", "0">>
                     THEN [t EXCEPT !.planned = @ \cup {normalize_name(service.name)}]
                     ELSE [t EXCEPT !.structure =
                              DSet(@, parent_name, Append(siblings, entry))])

\* cascade_structure after the alphabetical sorting of parents and children
TargetStructure(structure) ==
    SortItems([i \in DOMAIN structure |->
                 [k |-> structure[i].k, v |-> SortChildren(structure[i].v)]])

\* an option without "optionId" is a parent; the model writes optionId 0 for it
IsParent(opt) == opt.optionId = 0

\* {opt["id"]: opt["value"] for opt in current_options if "optionId" not in opt}
RECURSIVE ParentMap(_, _)
ParentMap(opts, m) ==
    IF opts = <<>> THEN m
    ELSE ParentMap(Tail(opts),
                   IF IsParent(Head(opts)) THEN DSet(m, Head(opts).id, Head(opts).value)
                   ELSE m)

\* the loop over current_options that fills current_structure
RECURSIVE BuildCurrent(_, _, _)
BuildCurrent(opts, parent_map, cs) ==
    IF opts = <<>> THEN cs
    ELSE LET opt == Head(opts)
             parent_val == IF DHas(parent_map, opt.optionId)
                           THEN DVal(parent_map, opt.optionId) ELSE None
             child == [name |-> opt.value, disabled |-> opt.disabled, id |-> opt.id]
         IN  BuildCurrent(Tail(opts), parent_map,
                IF IsParent(opt)
                THEN DSet(cs, opt.value, [id |-> opt.id, children |-> <<>>])
                ELSE IF Truthy(parent_val)
                     THEN DSet(cs, parent_val,
                               [DVal(cs, parent_val) EXCEPT !.children = Append(@, child)])
                     ELSE cs)

\* current_structure after the alphabetical sorting of parents and children
CurrentStructure(opts) ==
    LET cs == BuildCurrent(opts, ParentMap(opts, <<>>), <<>>)
    IN  SortItems([i \in DOMAIN cs |->
                     [k |-> cs[i].k,
                      v |-> [id |-> cs[i].v.id, children |-> SortChildren(cs[i].v.children)]]])

DISABLE_OBSOLETE == TRUE
REACTIVATE_ACTIVE == TRUE

\* one request to the option endpoint; id 0 when the URL names no option
Call(method, id, payload) == [method |-> method, id |-> id, payload |-> payload]
NoBody == [none |-> TRUE]
SetDisabled(id, flag) == Call("PUT", id, [disabled |-> flag])
CreateOption(child, parent_id) ==
    Call("POST", 0, [value |-> child.name, disabled |-> child.disabled, optionId |-> parent_id])

\* log_full(parent, child, status) together with the requests that follow it
Event(status, parent, child, reqs) ==
    [row |-> [parent |-> parent, child |-> child, status |-> status], reqs |-> reqs]

\* PRELIMINARY STEP: physical deletion of the planned services present in Jira
DeleteEvents(cs, planned, mode) ==
    Flatten([p \in DOMAIN cs |->
        Flatten([c \in DOMAIN cs[p].v.children |->
            LET child == cs[p].v.children[c]
            IN  IF normalize_name(child.name) \in planned
                THEN <<Event("DELETED (Status 20)", cs[p].k, child.name,
                             IF mode = "apply" THEN <<Call("DELETE", child.id, NoBody)>>
                             ELSE <<>>)>>
                ELSE <<>>])])

\* the positions <<parent, child>> of the current children named child_norm
Matches(cs, child_norm) ==
    {m \in UNION {{<<p, c>> : c \in DOMAIN cs[p].v.children} : p \in DOMAIN cs} :
        normalize_name(cs[m[1]].v.children[m[2]].name) = child_norm}

\* the first match of the global search, in the order of current_structure
FirstMatch(cs, child_norm) ==
    CHOOSE m \in Matches(cs, child_norm) :
        \A n \in Matches(cs, child_norm) : m[1] < n[1] \/ (m[1] = n[1] /\ m[2] <= n[2])

\* next(p for p in current_structure.keys() if normalize_name(p) == parent_name_norm)
JiraParents(cs, parent_name_norm) == {p \in DOMAIN cs : normalize_name(cs[p].k) = parent_name_norm}

JiraParent(cs, parent_name_norm) ==
    CHOOSE p \in JiraParents(cs, parent_name_norm) :
        \A q \in JiraParents(cs, parent_name_norm) : p <= q

\* the body of the loop over the children of a target parent
ChildEvent(cs, parent_name, jp, child, mode) ==
    LET parent_name_norm == normalize_name(parent_name)
        child_norm == normalize_name(child.name)
        jira_children == cs[jp].v.children
    IN  IF Matches(cs, child_norm) = {}
        THEN Event("To add", parent_name, child.name,
                   IF mode = "apply" THEN <<CreateOption(child, cs[jp].v.id)>> ELSE <<>>)
        ELSE LET m == FirstMatch(cs, child_norm)
                 found_in == cs[m[1]].k
                 child_id == cs[m[1]].v.children[m[2]].id
             IN  IF normalize_name(found_in) /= parent_name_norm
                 THEN Event("To move", parent_name, child.name,
                            IF mode = "apply"
                            THEN <<SetDisabled(child_id, TRUE), CreateOption(child, cs[jp].v.id)>>
                            ELSE <<>>)
                 ELSE LET jira_child ==
                              jira_children[CHOOSE c \in DOMAIN jira_children :
                                  /\ normalize_name(jira_children[c].name) = child_norm
                                  /\ \A d \in DOMAIN jira_children :
                                        normalize_name(jira_children[d].name) = child_norm
                                            => c <= d]
                      IN  IF jira_child.disabled /\ ~child.disabled
                          THEN Event("To reactivate", parent_name, child.name,
                                     IF mode = "apply" /\ REACTIVATE_ACTIVE
                                     THEN <<SetDisabled(jira_child.id, FALSE)>> ELSE <<>>)
                          ELSE Event("OK", parent_name, child.name, <<>>)

\* the diff without the continue of line 220: the children of a missing parent are
\* reported as additions
DiffEvents_NoContinue(target, cs, mode) ==
    Flatten([t \in DOMAIN target |->
        IF JiraParents(cs, normalize_name(target[t].k)) = {}
        THEN <<Event("Parent missing", target[t].k, <<>>, <<>>)>>
                 \o [c \in DOMAIN target[t].v |->
                        Event("To add", target[t].k, target[t].v[c].name, <<>>)]
        ELSE [c \in DOMAIN target[t].v |->
                ChildEvent(cs, target[t].k, JiraParent(cs, normalize_name(target[t].k)),
                           target[t].v[c], mode)]])

\* the main loop over cascade_structure
DiffEvents(target, cs, mode) ==
    Flatten([t \in DOMAIN target |->
        IF JiraParents(cs, normalize_name(target[t].k)) = {}
        THEN <<Event("Parent missing", target[t].k, <<>>, <<>>)>>
        ELSE [c \in DOMAIN target[t].v |->
                ChildEvent(cs, target[t].k, JiraParent(cs, normalize_name(target[t].k)),
                           target[t].v[c], mode)]])

\* [normalize_name(c["name"]) for c in cascade_structure.get(parent_name, [])]
target_children(target, parent_name) ==
    IF DHas(target, parent_name)
    THEN {normalize_name(DVal(target, parent_name)[c].name) :
             c \in DOMAIN DVal(target, parent_name)}
    ELSE {}

\* Disable obsolete
\* the sweep with the obsolete options deleted where the script disables them
SweepEvents_Deleting(target, cs, mode) ==
    Flatten([p \in DOMAIN cs |->
        Flatten([c \in DOMAIN cs[p].v.children |->
            LET child == cs[p].v.children[c]
                listed == normalize_name(child.name) \in target_children(target, cs[p].k)
            IN  IF ~listed /\ ~child.disabled
                THEN <<Event("To disable", cs[p].k, child.name,
                             IF mode = "apply" /\ DISABLE_OBSOLETE
                             THEN <<Call("DELETE", child.id, NoBody)>> ELSE <<>>)>>
                ELSE IF listed THEN <<Event("OK", cs[p].k, child.name, <<>>)>>
                ELSE <<>>])])

SweepEvents(target, cs, mode) ==
    Flatten([p \in DOMAIN cs |->
        Flatten([c \in DOMAIN cs[p].v.children |->
            LET child == cs[p].v.children[c]
                listed == normalize_name(child.name) \in target_children(target, cs[p].k)
            IN  IF ~listed /\ ~child.disabled
                THEN <<Event("To disable", cs[p].k, child.name,
                             IF mode = "apply" /\ DISABLE_OBSOLETE
                             THEN <<SetDisabled(child.id, TRUE)>> ELSE <<>>)>>
                ELSE IF listed THEN <<Event("OK", cs[p].k, child.name, <<>>)>>
                ELSE <<>>])])

\* Reordering options in Jira
ReorderCalls(cs, mode) ==
    IF mode /= "apply" THEN <<>>
    ELSE Flatten([p \in DOMAIN cs |->
            IF cs[p].v.children = <<>> THEN <<>>
            ELSE <<Call("PUT", 0,
                        [customFieldOptionIds |->
                            [c \in DOMAIN cs[p].v.children |-> cs[p].v.children[c].id],
                         position |-> "First"])>>])

RowsOf(events) == [i \in DOMAIN events |-> events[i].row]
CallsOf(events) == Flatten([i \in DOMAIN events |-> events[i].reqs])

\* Jira's option store answering one request: DELETE drops the option, PUT sets its
\* flag, POST adds an option with a fresh id; a request for an unknown id changes nothing
Answer(store, call) ==
    IF call.method = "DELETE"
    THEN [store EXCEPT !.options = SelectSeq(@, LAMBDA o : o.id /= call.id)]
    ELSE IF call.method = "PUT" /\ call.id /= 0
    THEN [store EXCEPT !.options =
             [i \in DOMAIN store.options |->
                 IF store.options[i].id = call.id
                 THEN [store.options[i] EXCEPT !.disabled = call.payload.disabled]
                 ELSE store.options[i]]]
    ELSE IF call.method = "POST"
    THEN [options |-> Append(store.options,
                             [id |-> store.next, value |-> call.payload.value,
                              optionId |-> call.payload.optionId,
                              disabled |-> call.payload.disabled]),
          next |-> store.next + 1]
    ELSE store

RECURSIVE Served(_, _)
Served(store, reqs) ==
    IF reqs = <<>> THEN store ELSE Served(Answer(store, Head(reqs)), Tail(reqs))

Header == [parent |-> <<"Parent">>, child |-> <<"Child">>, status |-> "Status"]

\* one step of the script: the events are logged, their requests sent and answered
Emit(events, reqs, next_pc) ==
    /\ rows' = rows \o RowsOf(events)
    /\ csv' = csv \o RowsOf(events)
    /\ calls' = calls \o reqs
    /\ LET store == Served([options |-> remote_options, next |-> next_id], reqs)
       IN  remote_options' = store.options /\ next_id' = store.next
    /\ cpc' = next_pc
    /\ UNCHANGED <<MODE, business_domains, services, cascade_structure, planned_services,
                   current_structure, runNo, prevRows>>

\* lines 139-189: the target structure and the current structure
CascLoad ==
    /\ UNCHANGED NotCascade
    /\ cpc = "load"
    /\ LET t == BuildTarget(services, DomainMap(business_domains, <<>>),
                            [structure |-> <<>>, planned |-> {}])
       IN  /\ cascade_structure' = TargetStructure(t.structure)
           /\ planned_services' = t.planned
    /\ current_structure' = CurrentStructure(remote_options)
    /\ cpc' = "delete"
    /\ UNCHANGED <<MODE, business_domains, services, remote_options, next_id, runNo, rows,
                   calls, csv, prevRows>>

CascDeletePlanned ==
    /\ UNCHANGED NotCascade
    /\ cpc = "delete"
    /\ LET events == DeleteEvents(current_structure, planned_services, MODE)
       IN  Emit(events, CallsOf(events), "report")

\* Prepare CSV report: the file is opened for writing
CascPrepareReport ==
    /\ UNCHANGED NotCascade
    /\ cpc = "report"
    /\ csv' = <<Header>>
    /\ cpc' = "diff"
    /\ UNCHANGED <<MODE, business_domains, services, remote_options, next_id,
                   cascade_structure, planned_services, current_structure, runNo, rows,
                   calls, prevRows>>

CascDiff ==
    /\ UNCHANGED NotCascade
    /\ cpc = "diff"
    /\ LET events == DiffEvents(cascade_structure, current_structure, MODE)
       IN  Emit(events, CallsOf(events), "sweep")

CascSweep ==
    /\ UNCHANGED NotCascade
    /\ cpc = "sweep"
    /\ LET events == SweepEvents(cascade_structure, current_structure, MODE)
       IN  Emit(events, CallsOf(events), "reorder")

CascReorder ==
    /\ UNCHANGED NotCascade
    /\ cpc = "reorder"
    /\ Emit(<<>>, ReorderCalls(current_structure, MODE), "done")

MaxServices == 2
MaxRuns == 2

\* the script is started again on the same export
CascRerun ==
    /\ UNCHANGED NotCascade
    /\ cpc = "done"
    /\ runNo < MaxRuns
    /\ runNo' = runNo + 1
    /\ prevRows' = rows
    /\ rows' = <<>>
    /\ calls' = <<>>
    /\ cascade_structure' = <<>>
    /\ planned_services' = {}
    /\ current_structure' = <<>>
    /\ cpc' = "load"
    /\ UNCHANGED <<MODE, business_domains, services, remote_options, next_id, csv>>

Fin == <<"F", "i", "n">>
FinPadded == <<"F", "I", "N", " ">>
Bill == <<"B", "i", "l", "l">>
BillPadded == <<"b", "i", "l", "l", " ">>
Domains ==
    <<[sys_id |-> <<"d", "1">>, name |-> Fin], [sys_id |-> <<"d", "2">>, name |-> <<"H", "R">>]>>

Service(name, domain, status) ==
    [name |-> name, u_business_domain |-> domain, operational_status |-> status]

ServicePool ==
    {Service(Bill, <<"d", "1">>, <<"1">>), Service(Bill, <<"d", "1">>, <<"6">>),
     Service(Bill, <<"d", "1">>, <<"2", "0">>), Service(Bill, <<"d", "2">>, <<"1">>),
     Service(BillPadded, <<"d", "1">>, <<"1">>), Service(Bill, <<"d", "9">>, <<"2", "0">>)}

ServiceExports == UNION {[1..n -> ServicePool] : n \in 1..MaxServices}

Option(id, value, optionId, disabled) ==
    [id |-> id, value |-> value, optionId |-> optionId, disabled |-> disabled]

\* the listing names every parent before its children, as BuildCurrent requires, and
\* no two parents share a normalized name, as the reactivation lookup requires
ParentListings ==
    {<<Option(10, Fin, 0, FALSE), Option(11, <<"H", "R">>, 0, FALSE)>>,
     <<Option(10, FinPadded, 0, FALSE), Option(11, <<"H", "R">>, 0, FALSE)>>,
     <<Option(11, <<"H", "R">>, 0, FALSE)>>}

ChildListings ==
    {<<>>, <<Option(98, Pay, 11, FALSE)>>}
    \cup {<<Option(99, Bill, p, d)>> : p \in {10, 11}, d \in BOOLEAN}
    \cup {<<Option(99, Bill, p, d), Option(98, Pay, 11, FALSE)>> : p \in {10, 11}, d \in BOOLEAN}

FirstNewId == 100

InitCascade ==
    /\ CacheIdle
    /\ DomainIdle
    /\ DeriveIdle
    /\ ServiceIdle
    /\ UpdateIdle
    /\ cascade_structure = <<>>
    /\ planned_services = {}
    /\ current_structure = <<>>
    /\ rows = <<>>
    /\ calls = <<>>
    /\ csv = <<>>
    /\ prevRows = <<>>
    /\ next_id = FirstNewId
    /\ MODE \in {"diagnostic", "apply"}
    /\ business_domains = Domains
    /\ services \in ServiceExports
    /\ \E parents \in ParentListings, children \in ChildListings :
          remote_options = parents \o children
    /\ cpc = "load"
    /\ runNo = 1

NextCascade ==
    \/ CascLoad
    \/ CascDeletePlanned
    \/ CascPrepareReport
    \/ CascDiff
    \/ CascSweep
    \/ CascReorder
    \/ CascRerun

SpecCascade == InitCascade /\ [][NextCascade]_vars

Operations == {"DELETED (Status 20)", "To add", "To move", "To disable", "To reactivate"}

\* C1: in apply mode, once the requests of a run have been answered, a further run of the
\* script on the same export logs no "To add", "To move", "To disable", "To reactivate"
\* or "DELETED (Status 20)" row.
C1_CascadeFixedPoint ==
    (MODE = "apply" /\ runNo >= 2) =>
        \A i \in DOMAIN rows : rows[i].status \notin Operations

\* the current children, as <<parent, child>> positions of current_structure
CurrentChildren ==
    UNION {{<<p, c>> : c \in DOMAIN current_structure[p].v.children} :
             p \in DOMAIN current_structure}

ParentAt(m) == current_structure[m[1]].k
ChildAt(m) == current_structure[m[1]].v.children[m[2]]

PlannedInExport(name) ==
    \E s \in DOMAIN services :
        /\ services[s].operational_status = <<"2", "0">>
        /\ normalize_name(services[s].name) = normalize_name(name)

Logged(status, parent, child) ==
    \E i \in DOMAIN rows : rows[i] = [parent |-> parent, child |-> child, status |-> status]

\* C4: a current option whose service has operational_status "20" in the export is
\* deleted by the run and is never disabled by it: a "DELETED (Status 20)" row and no
\* "To disable" row, and in apply mode a DELETE and no PUT disabled=true on its id.
C4_PlannedDeletedNeverDisabled ==
    cpc = "done" =>
        \A m \in CurrentChildren :
            PlannedInExport(ChildAt(m).name) =>
                /\ Logged("DELETED (Status 20)", ParentAt(m), ChildAt(m).name)
                /\ ~Logged("To disable", ParentAt(m), ChildAt(m).name)
                /\ MODE = "apply" =>
                      /\ \E i \in DOMAIN calls : calls[i] = Call("DELETE", ChildAt(m).id, NoBody)
                      /\ \A i \in DOMAIN calls : calls[i] /= SetDisabled(ChildAt(m).id, TRUE)

\* the target children, as <<parent, child>> positions of cascade_structure
TargetChildren ==
    UNION {{<<t, c>> : c \in DOMAIN cascade_structure[t].v} : t \in DOMAIN cascade_structure}

\* a target child found once in the current tree, under another parent than its own,
\* its own parent being in the current tree; its name is neither planned nor targeted twice
Misfiled(tc) ==
    LET parent_name == cascade_structure[tc[1]].k
        child_norm == normalize_name(cascade_structure[tc[1]].v[tc[2]].name)
    IN  /\ JiraParents(current_structure, normalize_name(parent_name)) /= {}
        /\ Cardinality(Matches(current_structure, child_norm)) = 1
        /\ \A m \in Matches(current_structure, child_norm) :
              normalize_name(ParentAt(m)) /= normalize_name(parent_name)
        /\ child_norm \notin planned_services
        /\ \A other \in TargetChildren :
              normalize_name(cascade_structure[other[1]].v[other[2]].name) = child_norm
                  => other = tc

\* C5: a target child present in the current tree only under another parent gets exactly
\* one "To move" row, in apply mode one PUT disabled=true on the old option and one POST
\* under the id of the target parent, and nothing else is logged or sent for that option.
C5_ExactlyOneMove ==
    cpc = "done" =>
        \A tc \in TargetChildren :
            Misfiled(tc) =>
                LET parent_name == cascade_structure[tc[1]].k
                    child == cascade_structure[tc[1]].v[tc[2]]
                    old == CHOOSE m \in Matches(current_structure,
                                                normalize_name(child.name)) : TRUE
                    parent_id == current_structure[
                        JiraParent(current_structure, normalize_name(parent_name))].v.id
                IN  /\ Cardinality({i \in DOMAIN rows :
                            rows[i] = [parent |-> parent_name, child |-> child.name,
                                       status |-> "To move"]}) = 1
                    /\ \A i \in DOMAIN rows :
                          (rows[i].parent = ParentAt(old) /\ rows[i].child = ChildAt(old).name)
                              => rows[i].status \notin Operations
                    /\ MODE = "apply" =>
                          /\ Cardinality({i \in DOMAIN calls : calls[i].id = ChildAt(old).id}) = 1
                          /\ \A i \in DOMAIN calls :
                                calls[i].id = ChildAt(old).id
                                    => calls[i] = SetDisabled(ChildAt(old).id, TRUE)
                          /\ Cardinality({i \in DOMAIN calls :
                                calls[i] = CreateOption(child, parent_id)}) = 1

----------------------------------------------------------------------------
(* jira_utils.update_issue: one call, attempt by attempt *)

RETRY_BASE_DELAY == 10

RECURSIVE Pow2(_)
Pow2(n) == IF n = 0 THEN 1 ELSE 2 * Pow2(n - 1)

\* retry_delay = RETRY_BASE_DELAY * (2 ** attempt)
retry_delay_Fixed(attempt) == RETRY_BASE_DELAY
retry_delay(attempt) == RETRY_BASE_DELAY * Pow2(attempt)

\* for attempt in range(MAX_RETRIES): the value of attempt in the next iteration
NextAttempt_Same(attempt) == attempt
NextAttempt(attempt) == attempt + 1

\* what the server may answer to one PUT; "fault" is a transport fault
Responses == {"200", "204", "fault"} \cup HttpErrors

UpdateScripts == [1..MAX_RETRIES -> Responses]

InitUpdate ==
    /\ CacheIdle
    /\ DomainIdle
    /\ DeriveIdle
    /\ ServiceIdle
    /\ CascadeIdle
    /\ reader = "none"
    /\ pages = <<>>
    /\ fetched = 0
    /\ all_items = <<>>
    /\ readResult = <<>>
    /\ rpc = "idle"
    /\ uScript \in UpdateScripts
    /\ uAttempt = 0
    /\ uSent = 0
    /\ uWaits = <<>>
    /\ uPaced = FALSE
    /\ uContext = 0
    /\ uResult = "None"
    /\ uPc = "run"

\* the loop body can run once more
UpdLoop == uPc = "run" /\ uAttempt < MAX_RETRIES

\* return value
UpdReturn(value) ==
    /\ uResult' = value
    /\ uPc' = "done"
    /\ uAttempt' = uAttempt

\* continue / the end of the loop body: the next iteration, or the return None
\* that follows the loop
UpdContinue ==
    /\ uAttempt' = NextAttempt(uAttempt)
    /\ uResult' = "None"
    /\ uPc' = IF NextAttempt(uAttempt) < MAX_RETRIES THEN "run" ELSE "done"

\* the PUT is answered with a success status
UpdSuccess ==
    /\ UpdLoop
    /\ uScript[uAttempt + 1] \notin HttpErrors \cup {"fault"}
    /\ uSent' = uSent + 1
    /\ uPaced' = TRUE
    /\ UpdReturn(uScript[uAttempt + 1])
    /\ UNCHANGED <<uScript, uWaits, uContext, NotUpdate>>

\* the PUT is answered 429 and attempts remain: sleep, then continue
UpdRateLimited ==
    /\ UpdLoop
    /\ uScript[uAttempt + 1] = "429"
    /\ uAttempt < MAX_RETRIES - 1
    /\ uSent' = uSent + 1
    /\ uWaits' = Append(uWaits, [attempt |-> uAttempt, delay |-> retry_delay(uAttempt)])
    /\ UpdContinue
    /\ UNCHANGED <<uScript, uPaced, uContext, NotUpdate>>

\* raise_for_status() raises HTTPError: a non-429 error status, or the 429 of
\* the last attempt
UpdHttpError ==
    /\ UpdLoop
    /\ uScript[uAttempt + 1] \in HttpErrors
    /\ uScript[uAttempt + 1] = "429" => uAttempt >= MAX_RETRIES - 1
    /\ uSent' = uSent + 1
    /\ IF ResponseTruthy(uScript[uAttempt + 1]) /\ uScript[uAttempt + 1] /= "429"
       THEN uContext' = uContext + 1 /\ UpdReturn("None")
       ELSE IF uAttempt = MAX_RETRIES - 1
            THEN uContext' = uContext /\ UpdReturn("None")
            ELSE uContext' = uContext /\ UpdContinue
    /\ UNCHANGED <<uScript, uWaits, uPaced, NotUpdate>>

\* requests.put raises: except Exception
UpdFault ==
    /\ UpdLoop
    /\ uScript[uAttempt + 1] = "fault"
    /\ uSent' = uSent + 1
    /\ uContext' = uContext + 1
    /\ UpdReturn("None")
    /\ UNCHANGED <<uScript, uWaits, uPaced, NotUpdate>>

NextUpdate == UpdSuccess \/ UpdRateLimited \/ UpdHttpError \/ UpdFault

SpecUpdate == InitUpdate /\ [][NextUpdate]_vars

\* the call followed step by step returns what update_issue computes
UpdateAgrees ==
    uPc = "done" => /\ uResult = update_issue(uScript).result
                    /\ uSent = update_issue(uScript).sent

----------------------------------------------------------------------------
(* business_domain.py: process_business_domains *)

\* str.replace(old, new), for a non-empty old
RECURSIVE Replace(_, _, _)
Replace(s, old, new) ==
    IF s = <<>> THEN <<>>
    ELSE IF StartsWith(s, old) THEN new \o Replace(Drop(s, Len(old)), old, new)
    ELSE <<Head(s)>> \o Replace(Tail(s), old, new)

\* str.strip('"')
RECURSIVE StripQuotes(_)
StripQuotes(s) ==
    IF s /= <<>> /\ Head(s) = "\"" THEN StripQuotes(Tail(s))
    ELSE IF s /= <<>> /\ s[Len(s)] = "\"" THEN StripQuotes(SubSeq(s, 1, Len(s) - 1))
    ELSE s

PlannedMark == <<"(", "p", "l", "a", "n", "n", "e", "d", ")">>
Markers == <<PlannedMark,
             <<"(", "P", "l", "a", "n", "n", "e", "d", ")">>,
             <<"(", "r", "e", "t", "i", "r", "e", "d", ")">>,
             <<"(", "R", "e", "t", "i", "r", "e", "d", ")">>>>

\* .replace(" (m)", "").replace("(m)", "")
Unmark(s, m) == Replace(Replace(s, <<" ">> \o m, <<>>), m, <<>>)

\* the name kept for a table row (lines 369-378); the names of the model hold
\* no HTML entity and no backslash, which html.unescape and replace('\\/', '/')
\* would change
RECURSIVE UnmarkAll(_, _)
UnmarkAll(s, i) == IF i > Len(Markers) THEN s ELSE UnmarkAll(Strip(Unmark(s, Markers[i])), i + 1)
domain_name_clean(raw) ==
    Strip(StripQuotes(Replace(UnmarkAll(StripQuotes(raw), 1), <<"\"", "\"">>, <<"\"">>)))

\* the second cell of a new row (lines 463-466)
domain_display(name, is_planned) ==
    <<"\"">> \o name \o <<"\"">> \o (IF is_planned THEN <<" ">> \o PlannedMark ELSE <<>>)

\* the loop of lines 357-394 over the data rows of the table
RECURSIVE domain_mapping(_, _)
domain_mapping(data_rows, d) ==
    IF data_rows = <<>> THEN d
    ELSE LET row == Head(data_rows)
             sys_id == Strip(row.sys_id)
             name == domain_name_clean(row.name)
         IN  domain_mapping(Tail(data_rows),
                            IF sys_id = <<>> \/ name = <<>> THEN d ELSE DSet(d, sys_id, name))

CACHE_DURATION == 300

\* load_automation_rules_table_from_confluence, with an empty cache
load_automation_rules_table_from_confluence(pg, fault) ==
    IF fault \/ ~pg.table \/ pg.rows = <<>> THEN <<>> ELSE domain_mapping(pg.rows, <<>>)

DomRequest(method, path) == [method |-> method, path |-> path]

\* update_confluence_table_with_new_domain: what it returns, the requests it
\* sends and the table it leaves
update_confluence_table_with_new_domain(pg, domain_info, is_planned, fault) ==
    LET name == IF Truthy(domain_info.name) THEN domain_info.name ELSE Unknown
        row == [sys_id |-> domain_info.sys_id, name |-> domain_display(name, is_planned)]
        get == <<DomRequest("GET", "page")>>
    IN  IF fault = "get" \/ ~pg.table \/ pg.rows = <<>>
        THEN [ok |-> FALSE, sent |-> get, page |-> pg]
        ELSE IF DRY_RUN
        THEN [ok |-> TRUE, sent |-> get, page |-> pg]
        ELSE IF fault = "put"
        THEN [ok |-> FALSE, sent |-> get \o <<DomRequest("PUT", "page")>>, page |-> pg]
        ELSE [ok |-> TRUE, sent |-> get \o <<DomRequest("PUT", "page")>>,
              page |-> [pg EXCEPT !.rows = Append(@, row)]]

\* the issues found by the JQL of search_issues_missing_business_domain
MissingDomain(all) ==
    SelectSeq(all, LAMBDA t : ~Truthy(t.domain_id) \/ ~Truthy(t.service_id))

\* get_unique_business_domain_ids
get_unique_business_domain_ids(found) ==
    {found[i].domain_id : i \in {j \in DOMAIN found : Truthy(found[j].domain_id)}}

\* get_business_domain_info_from_json; <<>> when no record has the identifier
get_business_domain_info_from_json(domain_id, data) ==
    LET hits == SelectSeq(data, LAMBDA d : RGet(d, "sys_id") = domain_id)
    IN  IF hits = <<>> THEN <<>>
        ELSE <<[sys_id |-> RGet(hits[1], "sys_id"), name |-> RGetD(hits[1], "name", <<>>)]>>

\* _get_operational_status
_get_operational_status(domain_id, data) ==
    LET hits == SelectSeq(data, LAMBDA d : RGet(d, "sys_id") = domain_id)
    IN  IF hits = <<>> THEN None ELSE RGet(hits[1], "operational_status")

\* fill_business_domain_field_direct: the number of issues updated, the requests
\* sent and the issues Jira holds afterwards
fill_business_domain_field_direct(all, domain_sys_id, domain_name) ==
    LET hit(t) == t.domain_id = domain_sys_id /\ ~Truthy(t.domain)
        n == Len(SelectSeq(all, hit))
    IN  [success |-> n,
         sent |-> <<DomRequest("POST", "search")>>
                      \o (IF DRY_RUN THEN <<>> ELSE Repeat(DomRequest("PUT", "issue"), n)),
         tickets |-> IF DRY_RUN THEN all
                     ELSE [i \in DOMAIN all |->
                              IF hit(all[i]) THEN [all[i] EXCEPT !.domain = domain_name]
                              ELSE all[i]]]

NoDomStats == [executed |-> 0, not_found |-> 0, activated |-> 0, planned_added |-> 0,
               retired_added |-> 0, errors |-> 0]

DomCount(field, n) == [domStats EXCEPT ![field] = @ + n]

\* the orders in which list(unique_domain_ids) can enumerate a set
Orders(S) == {o \in [1..Cardinality(S) -> S] : \A i, j \in DOMAIN o : o[i] = o[j] => i = j}

\* the platform fails at most MaxPageFaults page requests of a pass: the GET
\* that reads the page or the PUT that writes it
MaxPageFaults == 1
PageFaults == {"none"} \cup (IF pageFaults < MaxPageFaults THEN {"get", "put"} ELSE {})
FailedPage(faults) ==
    pageFaults' = pageFaults + Cardinality({i \in DOMAIN faults : faults[i] /= "none"})

\* where the pass goes after the steps over the identifiers
AfterIds(step, i) ==
    IF i < Len(domain_ids) THEN step
    ELSE IF step = "step1" THEN "step2"
    ELSE IF domains_data /= <<>> THEN "step3" ELSE "done"

\* lines 721-737: the three loads
DomLoad ==
    /\ dompc = "load"
    /\ domIdx' = 1
    /\ domStats' = NoDomStats
    /\ IF domains_data = <<>>
       THEN /\ dompc' = "done"
            /\ UNCHANGED <<automation_table, domain_ids, domRequests, pageFaults>>
       ELSE \E fault \in PageFaults \ {"put"} :
              \E order \in Orders(get_unique_business_domain_ids(MissingDomain(tickets))) :
                /\ FailedPage(<<fault>>)
                /\ automation_table' =
                       load_automation_rules_table_from_confluence(page, fault = "get")
                /\ domain_ids' = order
                /\ domRequests' = <<DomRequest("GET", "page"), DomRequest("GET", "search")>>
                /\ dompc' = IF order /= <<>> THEN "step1" ELSE "step3"
    /\ UNCHANGED <<domains_data, AUTO_UPDATE_CONFLUENCE, page, tickets, NotDomain>>

\* Step 1, one identifier: _handle_existing_domain or _handle_new_domain
DomStep1 ==
    /\ dompc = "step1"
    /\ dompc' = AfterIds("step1", domIdx)
    /\ domIdx' = IF dompc' = "step1" THEN domIdx + 1 ELSE 1
    /\ LET domain_id == domain_ids[domIdx]
           info == get_business_domain_info_from_json(domain_id, domains_data)
       IN  IF DHas(automation_table, domain_id)
           THEN LET filled == fill_business_domain_field_direct(
                                  tickets, domain_id, DVal(automation_table, domain_id))
                IN  /\ tickets' = filled.tickets
                    /\ domRequests' = domRequests \o filled.sent
                    /\ domStats' = DomCount("executed", IF filled.success > 0 THEN 1 ELSE 0)
                    /\ UNCHANGED <<page, pageFaults>>
           ELSE IF info = <<>>
           THEN /\ domStats' = DomCount("not_found", 1)
                /\ UNCHANGED <<tickets, domRequests, page, pageFaults>>
           ELSE LET name == IF Truthy(info[1].name) THEN info[1].name ELSE Unknown
                    filled == fill_business_domain_field_direct(tickets, domain_id, name)
                    executed == DomCount("executed", IF filled.success > 0 THEN 1 ELSE 0)
                IN  /\ tickets' = filled.tickets
                    /\ IF ~AUTO_UPDATE_CONFLUENCE
                       THEN /\ domStats' = [executed EXCEPT !.not_found = @ + 1]
                            /\ domRequests' = domRequests \o filled.sent
                            /\ UNCHANGED <<page, pageFaults>>
                       ELSE \E fault \in PageFaults :
                              LET res == update_confluence_table_with_new_domain(
                                             page, info[1], FALSE, fault)
                              IN  /\ FailedPage(<<fault>>)
                                  /\ page' = res.page
                                  /\ domRequests' = domRequests \o filled.sent \o res.sent
                                  /\ domStats' = IF res.ok THEN executed
                                                 ELSE [executed EXCEPT !.errors = @ + 1]
    /\ UNCHANGED <<domains_data, AUTO_UPDATE_CONFLUENCE, automation_table, domain_ids,
                   NotDomain>>

\* Step 2, one identifier: _activate_planned_domains
DomStep2 ==
    /\ dompc = "step2"
    /\ dompc' = AfterIds("step2", domIdx)
    /\ domIdx' = IF dompc' = "step2" THEN domIdx + 1 ELSE 1
    /\ LET domain_id == domain_ids[domIdx]
           domain_name == DVal(automation_table, domain_id)
           clean_name == StripQuotes(Unmark(domain_name, PlannedMark))
           filled == fill_business_domain_field_direct(tickets, domain_id, clean_name)
       IN  IF /\ DHas(automation_table, domain_id)
              /\ Contains(Lower(domain_name), PlannedMark)
              /\ _get_operational_status(domain_id, domains_data) \in {<<"1">>, <<>>, None}
           THEN /\ tickets' = filled.tickets
                /\ domRequests' = domRequests \o filled.sent
                /\ domStats' = DomCount("activated", IF filled.success > 0 THEN 1 ELSE 0)
           ELSE UNCHANGED <<tickets, domRequests, domStats>>
    /\ UNCHANGED <<domains_data, AUTO_UPDATE_CONFLUENCE, page, automation_table, domain_ids,
                   pageFaults, NotDomain>>

\* the counter that _add_planned_domain, _add_retired_domain and
\* _add_active_domain increase
AddedField(status) == IF status = <<"6">> THEN "retired_added" ELSE "planned_added"

\* the number of calls of the _add_ function that lines 987-993 make for a record
AddCalls_Once(status) ==
    IF status \in {<<"2", "0">>, <<"6">>, <<"1">>, <<>>, None} THEN 1 ELSE 0
AddCalls(status) ==
    IF status \in {<<"2", "0">>, <<"6">>} THEN 1
    ELSE IF status \in {<<"1">>, <<>>, None} THEN 2 ELSE 0

\* Step 3, one record of the export: _add_missing_domains_to_confluence
DomStep3 ==
    /\ dompc = "step3"
    /\ dompc' = IF domIdx < Len(domains_data) THEN "step3" ELSE "done"
    /\ domIdx' = IF dompc' = "step3" THEN domIdx + 1 ELSE 1
    /\ LET domain == domains_data[domIdx]
           domain_sys_id == RGet(domain, "sys_id")
           operational_status == RGet(domain, "operational_status")
           domain_info == [sys_id |-> domain_sys_id, name |-> RGetD(domain, "name", <<>>)]
           calls_made == IF AUTO_UPDATE_CONFLUENCE THEN AddCalls(operational_status) ELSE 0
       IN  IF \/ DHas(automation_table, domain_sys_id)
              \/ domain_sys_id \in {domain_ids[i] : i \in DOMAIN domain_ids}
              \/ ~Truthy(RGet(domain, "name"))
              \/ calls_made = 0
           THEN UNCHANGED <<page, domRequests, domStats, pageFaults>>
           ELSE \E f1 \in PageFaults, f2 \in PageFaults :
                  LET first == update_confluence_table_with_new_domain(
                                   page, domain_info, TRUE, f1)
                      second == update_confluence_table_with_new_domain(
                                    first.page, domain_info, TRUE, f2)
                      oks == (IF first.ok THEN 1 ELSE 0)
                                 + (IF calls_made = 2 /\ second.ok THEN 1 ELSE 0)
                  IN  /\ calls_made = 1 => f2 = "none"
                      /\ (f1 /= "none" /\ f2 /= "none") => pageFaults + 2 <= MaxPageFaults
                      /\ FailedPage(<<f1, f2>>)
                      /\ page' = IF calls_made = 2 THEN second.page ELSE first.page
                      /\ domRequests' = domRequests \o first.sent
                             \o (IF calls_made = 2 THEN second.sent ELSE <<>>)
                      /\ domStats' = DomCount(AddedField(operational_status), oks)
    /\ UNCHANGED <<domains_data, AUTO_UPDATE_CONFLUENCE, tickets, automation_table,
                   domain_ids, NotDomain>>

NextDomain == DomLoad \/ DomStep1 \/ DomStep2 \/ DomStep3

MaxDomains == 2

DomainId(n) == <<"D", n>>

DomainPool ==
    {MkRecord(DomainId("1"), Fin, <<"1">>), MkRecord(DomainId("1"), Fin, <<"2", "0">>),
     MkRecord(DomainId("2"), Bill, <<"6">>), MkRecord(DomainId("2"), AllName, None),
     MkRecord(DomainId("2"), None, <<"1">>)}

DomainExports == UNION {[1..n -> DomainPool] : n \in 0..MaxDomains}

TableRow(sys_id, name) == [sys_id |-> sys_id, name |-> name]

Pages ==
    {[table |-> FALSE, rows |-> <<>>], [table |-> TRUE, rows |-> <<>>],
     [table |-> TRUE, rows |-> <<TableRow(DomainId("9"), domain_display(Bill, FALSE))>>],
     [table |-> TRUE, rows |-> <<TableRow(DomainId("1"), domain_display(Fin, FALSE))>>],
     [table |-> TRUE, rows |-> <<TableRow(DomainId("1"), domain_display(Fin, TRUE))>>]}

\* a tracked item: the fields the domain pass and the workflow read
Item(domain_id, service_id, domain, name, option_id) ==
    [domain_id |-> domain_id, service_id |-> service_id, domain |-> domain, name |-> name,
     option_id |-> option_id]

Ticket(domain_id, service_id, option_id) == Item(domain_id, service_id, None, None, option_id)

TicketStores ==
    {<<>>,
     <<Ticket(DomainId("1"), None, None)>>,
     <<Ticket(None, <<"A", "1">>, <<"7">>)>>,
     <<Ticket(DomainId("1"), None, None), Ticket(DomainId("1"), <<"A", "1">>, <<"7">>)>>,
     <<Ticket(DomainId("2"), None, <<"8">>), Ticket(DomainId("1"), None, None)>>}

\* every other part of the model is idle; DRY_RUN is free
InitDomain ==
    /\ CacheIdle
    /\ DeriveIdle
    /\ CascadeIdle
    /\ UpdateIdle
    /\ jira = <<>>
    /\ records = <<>>
    /\ DRY_RUN \in BOOLEAN
    /\ userFound = FALSE
    /\ MANDATORY_REPORTER_ID = None
    /\ pc = "idle"
    /\ passNo = 0
    /\ issues_cache = <<>>
    /\ name_cache = <<>>
    /\ issues_to_clean = <<>>
    /\ idx = 1
    /\ stats = NoStats
    /\ ops = <<>>
    /\ requests = <<>>
    /\ prevOps = <<>>
    /\ failures = 0
    /\ domains_data \in DomainExports
    /\ AUTO_UPDATE_CONFLUENCE \in BOOLEAN
    /\ page \in Pages
    /\ tickets \in TicketStores
    /\ automation_table = <<>>
    /\ domain_ids = <<>>
    /\ domStats = <<>>
    /\ domRequests = <<>>
    /\ dompc = "load"
    /\ domIdx = 1
    /\ pageFaults = 0

SpecDomain == InitDomain /\ [][NextDomain]_vars

----------------------------------------------------------------------------
(* main_workflow.py: the steps of main around the cascade and service passes *)

\* sorted(domain_ids)
SortedIds(S) ==
    CHOOSE o \in Orders(S) : \A i, j \in DOMAIN o : i < j => StrLess(o[i], o[j])

\* the option tree get_cascading_field_options reads once the cascade pass is
\* over: parent name -> child name -> option id
FieldOptions ==
    <<[k |-> Fin, v |-> <<[k |-> Pay, v |-> <<"7">>], [k |-> Old, v |-> <<"9">>]>>],
      [k |-> Bill, v |-> <<>>]>>

\* str(value) of an option id field, which holds a text or nothing
PyStr(v) == IF v = None THEN <<"N", "o", "n", "e">> ELSE v

\* _update_option_id_for_service without the test of line 323
_update_option_id_for_service_Unguarded(all, service_name, child_id) ==
    LET hit(t) == t.name = service_name /\ PyStr(t.option_id) /= PyStr(child_id)
        n == Len(SelectSeq(all, hit))
    IN  [sent |-> <<DomRequest("POST", "search")>> \o Repeat(DomRequest("PUT", "issue"), n),
         tickets |-> [i \in DOMAIN all |->
                         IF hit(all[i]) THEN [all[i] EXCEPT !.option_id = child_id]
                         ELSE all[i]]]

\* _update_option_id_for_service: the requests sent and the items Jira holds
\* afterwards; the JQL finds the items that carry the name, and a PUT that is
\* sent is applied
_update_option_id_for_service(all, service_name, child_id) ==
    LET hit(t) == t.name = service_name /\ PyStr(t.option_id) /= PyStr(child_id)
        n == Len(SelectSeq(all, hit))
    IN  [sent |-> <<DomRequest("POST", "search")>>
                      \o (IF DRY_RUN THEN <<>> ELSE Repeat(DomRequest("PUT", "issue"), n)),
         tickets |-> IF DRY_RUN THEN all
                     ELSE [i \in DOMAIN all |->
                              IF hit(all[i]) THEN [all[i] EXCEPT !.option_id = child_id]
                              ELSE all[i]]]

\* check_for_new_business_domains and the two loads of main (lines 384-387)
WfCheck ==
    /\ dompc = "wf_check"
    /\ domIdx' = 1
    /\ LET issues == MissingDomain(tickets)
           new_ids == SortedIds(get_unique_business_domain_ids(issues))
       IN  IF issues = <<>>
           THEN /\ domRequests' = <<DomRequest("GET", "search")>>
                /\ dompc' = "wf_options"
                /\ UNCHANGED <<automation_table, domain_ids, pageFaults>>
           ELSE \E fault \in PageFaults \ {"put"} :
                  /\ FailedPage(<<fault>>)
                  /\ automation_table' =
                         load_automation_rules_table_from_confluence(page, fault = "get")
                  /\ domain_ids' = new_ids
                  /\ domRequests' = <<DomRequest("GET", "search"), DomRequest("GET", "page")>>
                  /\ dompc' = IF new_ids /= <<>> THEN "wf_new" ELSE "wf_options"
    /\ UNCHANGED <<domains_data, AUTO_UPDATE_CONFLUENCE, page, tickets, domStats, NotDomain>>

\* process_new_business_domains, one identifier
WfNewDomain ==
    /\ dompc = "wf_new"
    /\ dompc' = IF domIdx < Len(domain_ids) THEN "wf_new" ELSE "wf_options"
    /\ domIdx' = IF dompc' = "wf_new" THEN domIdx + 1 ELSE 1
    /\ LET d_id == domain_ids[domIdx]
           info == get_business_domain_info_from_json(d_id, domains_data)
       IN  IF DHas(automation_table, d_id) \/ info = <<>>
           THEN UNCHANGED <<page, domRequests, pageFaults>>
           ELSE \E fault \in PageFaults :
                  LET res == update_confluence_table_with_new_domain(
                                 page, info[1], FALSE, fault)
                  IN  /\ FailedPage(<<fault>>)
                      /\ page' = res.page
                      /\ domRequests' = domRequests \o res.sent
    /\ UNCHANGED <<domains_data, AUTO_UPDATE_CONFLUENCE, tickets, automation_table,
                   domain_ids, domStats, NotDomain>>

\* sync_cascading_dropdown, the two loads (lines 349-351); the items of the
\* model carry no status, so the search lists them all
WfLoadOptions ==
    /\ dompc = "wf_options"
    /\ dompc' = IF tickets /= <<>> THEN "wf_option" ELSE "done"
    /\ domIdx' = 1
    /\ domRequests' = domRequests \o <<DomRequest("POST", "search"), DomRequest("GET", "option")>>
    /\ UNCHANGED <<domains_data, AUTO_UPDATE_CONFLUENCE, page, tickets, automation_table,
                   domain_ids, domStats, pageFaults, NotDomain>>

\* sync_cascading_dropdown, one item of the list read at the start (lines 357-364)
WfSyncOption ==
    /\ dompc = "wf_option"
    /\ dompc' = IF domIdx < Len(tickets) THEN "wf_option" ELSE "done"
    /\ domIdx' = IF dompc' = "wf_option" THEN domIdx + 1 ELSE 1
    /\ LET d_name == tickets[domIdx].domain
           s_name == tickets[domIdx].name
       IN  IF DHas(FieldOptions, d_name) /\ DHas(DVal(FieldOptions, d_name), s_name)
           THEN LET done == _update_option_id_for_service(
                                tickets, s_name, DVal(DVal(FieldOptions, d_name), s_name))
                IN  /\ tickets' = done.tickets
                    /\ domRequests' = domRequests \o done.sent
           ELSE UNCHANGED <<tickets, domRequests>>
    /\ UNCHANGED <<domains_data, AUTO_UPDATE_CONFLUENCE, page, automation_table, domain_ids,
                   domStats, pageFaults, NotDomain>>

NextWorkflow == WfCheck \/ WfNewDomain \/ WfLoadOptions \/ WfSyncOption

\* the items main can find: with or without a domain, an option id that is
\* missing, right or stale
WorkflowStores ==
    {<<>>,
     <<Item(DomainId("1"), None, None, Pay, None)>>,
     <<Item(DomainId("1"), <<"A", "1">>, Fin, Pay, <<"7">>)>>,
     <<Item(DomainId("1"), <<"A", "1">>, Fin, Pay, <<"8">>),
       Item(DomainId("1"), <<"A", "2">>, Fin, Old, None)>>,
     <<Item(DomainId("2"), None, Bill, Pay, None), Item(DomainId("1"), None, None, Old, None),
       Item(DomainId("1"), <<"A", "1">>, Fin, Pay, None)>>}

\* main at its start; the cascade and service passes it runs in between are
\* followed from InitCascade and InitService
InitWorkflow ==
    /\ CacheIdle
    /\ DeriveIdle
    /\ CascadeIdle
    /\ UpdateIdle
    /\ jira = <<>>
    /\ records = <<>>
    /\ DRY_RUN \in BOOLEAN
    /\ userFound = FALSE
    /\ MANDATORY_REPORTER_ID = None
    /\ pc = "idle"
    /\ passNo = 0
    /\ issues_cache = <<>>
    /\ name_cache = <<>>
    /\ issues_to_clean = <<>>
    /\ idx = 1
    /\ stats = NoStats
    /\ ops = <<>>
    /\ requests = <<>>
    /\ prevOps = <<>>
    /\ failures = 0
    /\ domains_data \in DomainExports
    /\ AUTO_UPDATE_CONFLUENCE = FALSE
    /\ page \in Pages
    /\ tickets \in WorkflowStores
    /\ automation_table = <<>>
    /\ domain_ids = <<>>
    /\ domStats = <<>>
    /\ domRequests = <<>>
    /\ dompc = "wf_check"
    /\ domIdx = 1
    /\ pageFaults = 0

SpecWorkflow == InitWorkflow /\ [][NextWorkflow]_vars

----------------------------------------------------------------------------
(* business_domain.py: the cache of the domain mapping *)

MaxClock == 900

\* the test of lines 314-317 with the bound included in the window
CacheUsable_Inclusive(force_refresh) ==
    /\ ~force_refresh
    /\ _DOMAIN_CACHE /= <<>>
    /\ clock - _CACHE_TIMESTAMP <= CACHE_DURATION

\* the test of lines 314-317: the cached mapping is returned
CacheUsable(force_refresh) ==
    /\ ~force_refresh
    /\ _DOMAIN_CACHE /= <<>>
    /\ clock - _CACHE_TIMESTAMP < CACHE_DURATION

\* the fetch of lines 332-348 gets past its three early returns
FetchSucceeds(pg, fault) == ~fault /\ pg.table /\ pg.rows /= <<>>

\* one call of load_automation_rules_table_from_confluence(force_refresh); the
\* fetch takes no time
CacheCall ==
    \E force_refresh \in BOOLEAN, fault \in BOOLEAN :
        LET cached == CacheUsable(force_refresh)
            loaded == load_automation_rules_table_from_confluence(page, fault)
            call == [at |-> clock, force_refresh |-> force_refresh, fetched |-> ~cached,
                     result |-> IF cached THEN _DOMAIN_CACHE[1] ELSE loaded,
                     prior |-> lastLoad]
        IN  /\ cached => ~fault
            /\ lastCall' = <<call>>
            /\ IF ~cached /\ FetchSucceeds(page, fault)
               THEN /\ _DOMAIN_CACHE' = <<loaded>>
                    /\ _CACHE_TIMESTAMP' = clock
                    /\ lastLoad' = <<[at |-> clock, mapping |-> loaded]>>
               ELSE UNCHANGED <<_DOMAIN_CACHE, _CACHE_TIMESTAMP, lastLoad>>
            /\ UNCHANGED <<clock, domainVars, deriveVars, serviceVars, cascadeVars,
                           updateVars, readerVars>>

\* the times that pass between two calls
Ticks == {150, 299, 300}

\* time passes
CacheTick ==
    \E d \in Ticks :
        /\ clock + d <= MaxClock
        /\ clock' = clock + d
        /\ UNCHANGED <<_DOMAIN_CACHE, _CACHE_TIMESTAMP, lastCall, lastLoad, domainVars,
                       deriveVars, serviceVars, cascadeVars, updateVars, readerVars>>

\* somebody edits the table of the page
\* the pages of the documentation, one of them with a table whose only row has no
\* identifier and is skipped by the load
CachePages ==
    Pages \cup {[table |-> TRUE, rows |-> <<TableRow(<<>>, domain_display(Fin, FALSE))>>]}

CachePageEdit ==
    /\ page' \in CachePages \ {page}
    /\ UNCHANGED <<domains_data, AUTO_UPDATE_CONFLUENCE, tickets, automation_table,
                   domain_ids, domStats, domRequests, dompc, domIdx, pageFaults, cacheVars,
                   deriveVars, serviceVars, cascadeVars, updateVars, readerVars>>

NextCache == CacheCall \/ CacheTick \/ CachePageEdit

\* the module right after its import, and any page
InitCache ==
    /\ CacheIdle
    /\ DeriveIdle
    /\ ServiceIdle
    /\ CascadeIdle
    /\ UpdateIdle
    /\ domains_data = <<>>
    /\ AUTO_UPDATE_CONFLUENCE = FALSE
    /\ page \in CachePages
    /\ tickets = <<>>
    /\ automation_table = <<>>
    /\ domain_ids = <<>>
    /\ domStats = <<>>
    /\ domRequests = <<>>
    /\ dompc = "idle"
    /\ domIdx = 1
    /\ pageFaults = 0

SpecCache == InitCache /\ [][NextCache]_vars

----------------------------------------------------------------------------
(* A run in simulate mode *)

\* main with DRY_RUN set, which starts sync_cdl_combined.py with SYNC_MODE
\* "diagnostic" (main_workflow.py line 220), or the domain pass with DRY_RUN
\* set; the passes share no state but the remote systems, so each is followed
\* from every remote state of its own
InitSimulate ==
    /\ InitWorkflow \/ InitCascade \/ InitService \/ InitDomain
    /\ DRY_RUN
    /\ MODE = "diagnostic"

NextSimulate == NextWorkflow \/ NextCascade \/ NextService \/ NextDomain

SpecSimulate == InitSimulate /\ [][NextSimulate]_vars

----------------------------------------------------------------------------
(* The paginated readers *)

MaxPages == 3

Readers == {"fetch_jira_issues_paginated", "load_all_business_services_with_fields",
            "search_issues_missing_business_domain", "fetch_all_options",
            "get_cascading_field_options"}

\* the readers whose loop holds the test len(issues) == 0
StopsOnEmptyPage(r) ==
    r \in {"fetch_jira_issues_paginated", "load_all_business_services_with_fields",
           "search_issues_missing_business_domain"}

\* the readers whose loop runs inside a try with an except Exception
CatchesFaults(r) == r /= "fetch_all_options"

\* a page: the number of records it holds, and whether the answer announces more
\* pages (a nextPageToken, a total beyond start_at + max_results, isLast = false)
Page == [size : 0..1, more : BOOLEAN, fault : {FALSE}]

\* the request raises, or it is answered with an error status
Fault == [size |-> 0, more |-> FALSE, fault |-> TRUE]

\* the answers of the server; the last page it can serve announces no other
PageScripts ==
    {script \in UNION {[1..n -> Page \cup {Fault}] : n \in 1..MaxPages} :
        ~script[Len(script)].more}

\* the records of page number p
PageRecords(p, answer) == [k \in 1..answer.size |-> <<p, k>>]

\* the break tests at the end of the loop body
Break(r, answer) == ~answer.more \/ (StopsOnEmptyPage(r) /\ answer.size = 0)

InitReader ==
    /\ CacheIdle
    /\ DomainIdle
    /\ DeriveIdle
    /\ ServiceIdle
    /\ CascadeIdle
    /\ uScript = <<>>
    /\ uAttempt = 0
    /\ uSent = 0
    /\ uWaits = <<>>
    /\ uPaced = FALSE
    /\ uContext = 0
    /\ uResult = "None"
    /\ uPc = "idle"
    /\ reader \in Readers
    /\ pages \in PageScripts
    /\ fetched = 0
    /\ all_items = <<>>
    /\ readResult = <<>>
    /\ rpc = "run"

\* one iteration of the loop: the request is answered with a page
RdPage ==
    /\ rpc = "run"
    /\ fetched < Len(pages)
    /\ ~pages[fetched + 1].fault
    /\ fetched' = fetched + 1
    /\ all_items' = all_items \o PageRecords(fetched + 1, pages[fetched + 1])
    /\ IF Break(reader, pages[fetched + 1])
       THEN rpc' = "done" /\ readResult' = all_items'
       ELSE rpc' = "run" /\ readResult' = readResult
    /\ UNCHANGED <<reader, pages, NotReader>>

\* one iteration of the loop: the request raises, or raise_for_status() does
RdFault ==
    /\ rpc = "run"
    /\ fetched < Len(pages)
    /\ pages[fetched + 1].fault
    /\ fetched' = fetched + 1
    /\ rpc' = IF CatchesFaults(reader) THEN "done" ELSE "raised"
    /\ readResult' = <<>>
    /\ UNCHANGED <<reader, pages, all_items, NotReader>>

NextReader == RdPage \/ RdFault

SpecReader == InitReader /\ [][NextReader]_vars

----------------------------------------------------------------------------
(* Properties of the service pass *)

OpsOf(kinds) == {i \in DOMAIN ops : ops[i].kind \in kinds}
Emitted == {"Create", "Update", "LabelRemove"}

\* every record of the export has been handled by the running pass
PassComplete == pc = "done" /\ \A r \in DOMAIN records : \E i \in DOMAIN ops : ops[i].rec = r

\* the records the loop has handled so far
Handled == {ops[i].rec : i \in DOMAIN ops} \ {0}

\* C2: once every operation of a live pass has been applied, a second pass over the same
\* export emits no Create, no Update and no label removal.
C2_SecondPassEmitsNothing ==
    (/\ passNo = 2
     /\ ~DRY_RUN
     /\ \A i \in DOMAIN prevOps : prevOps[i].kind \in Emitted => prevOps[i].ok
     /\ \A r \in DOMAIN records : \E i \in DOMAIN prevOps : prevOps[i].rec = r)
    => OpsOf(Emitted) = {}

\* C6: a non-excluded record whose sys_id is not in the identifier index and whose
\* normalized name is a key of the name index is handled as an Update of that item,
\* and no Create is issued for it.
C6_NameMatchFallback ==
    \A i \in DOMAIN ops :
        LET record == records[IF ops[i].rec = 0 THEN 1 ELSE ops[i].rec]
            name == RGetD(record, "name", Unknown)
        IN  (/\ ops[i].rec /= 0
             /\ ~should_exclude_item(record)
             /\ Truthy(RGet(record, "sys_id"))
             /\ ~DHas(issues_cache, RGet(record, "sys_id"))
             /\ name /= None
             /\ DHas(name_cache, normalize_name(name)))
            => /\ ops[i].kind = "Update"
               /\ ops[i].key = DVal(name_cache, normalize_name(name)).key

\* the external identifiers of the items selected for cleanup
CleanupIds ==
    {SysIdOf(issues_cache[i].v) :
        i \in {j \in DOMAIN issues_cache :
                 \E c \in DOMAIN issues_to_clean :
                    issues_to_clean[c] = issues_cache[j].v.key}}

CreatedIds == {RGet(records[ops[i].rec], "sys_id") : i \in OpsOf({"Create"})}

\* C7: no external identifier is both in the cleanup set and created in the same pass.
C7_CleanupCreateDisjoint == CleanupIds \cap CreatedIds = {}

C7_Witness == pc = "done" /\ CleanupIds /= {} /\ CreatedIds /= {}

\* C8: a label removal is issued only after the create/update of every record has been
\* attempted, no create or update follows a label removal, and the cleanup set is the
\* one computed from the indices before the first operation of the pass.
C8_CleanupAfterProcessing ==
    /\ \A i \in OpsOf({"LabelRemove"}) :
          /\ Handled = DOMAIN records
          /\ \A j \in DOMAIN ops : j > i => ops[j].kind = "LabelRemove"
    /\ \A i, j \in DOMAIN requests : i < j => requests[i].op <= requests[j].op
    /\ pc \in {"start", "json", "identify"} => ops = <<>>
    /\ pc \in {"process", "clean"} =>
          issues_to_clean = IssuesToClean(issues_cache, json_sys_ids(records))

C8_Witness ==
    /\ ~DRY_RUN
    /\ OpsOf({"LabelRemove"}) /= {}
    /\ OpsOf({"Update"}) /= {}
    /\ OpsOf({"Create"}) /= {}

HasRetiredPrefix(summary) ==
    StartsWith(summary, RetiredDash) \/ StartsWith(summary, RetiredSpaced)

\* the records C9 is about: status "6", found by identifier, summary without prefix
RetiringById ==
    {r \in DOMAIN records :
        /\ ~should_exclude_item(records[r])
        /\ RGet(records[r], "operational_status") = <<"6">>
        /\ Truthy(RGet(records[r], "sys_id"))
        /\ DHas(issues_cache, RGet(records[r], "sys_id"))
        /\ ~HasRetiredPrefix(DVal(issues_cache, RGet(records[r], "sys_id")).fields["summary"])}

ItemOf(r) == DVal(issues_cache, RGet(records[r], "sys_id"))

C10_DryRunSendsNothing ==
    DRY_RUN =>
        \A i \in OpsOf(Emitted) :
            /\ ops[i].ok
            /\ \A q \in DOMAIN requests : requests[q].op /= i

----------------------------------------------------------------------------
(* Properties of update_issue *)

\* the attempts that have been answered so far
Answered == 1..uSent

\* C12: once a PUT has been answered with an HTTP error other than 429, the call
\* has returned None after that request and sent no other, and the error context
\* has been recorded
C12_HttpErrorReturnsAtOnce ==
    \A i \in Answered :
        uScript[i] \in HttpErrors \ {"429"}
            => /\ uPc = "done"
               /\ uSent = i
               /\ uResult = "None"
               /\ uContext >= 1

\* C13: a call never sends more than MAX_RETRIES PUT requests, and it terminates:
\* while it runs, every iteration of the loop has sent exactly one request, fewer
\* than MAX_RETRIES iterations are behind it, and the next iteration can run
C13_AtMostMaxRetries ==
    /\ uSent <= MAX_RETRIES
    /\ uPc = "run" => /\ uSent = uAttempt
                      /\ uAttempt < MAX_RETRIES
                      /\ ENABLED NextUpdate
    /\ uPc = "done" => uSent >= 1

C13_Witness ==
    /\ uPc = "done"
    /\ uSent = MAX_RETRIES
    /\ uScript = <<"429", "500", "fault">>

\* number of 429 answers in a row right before attempt number a (counted from 0)
RECURSIVE Streak(_, _)
Streak(script, a) ==
    IF a = 0 \/ script[a] /= "429" THEN 0 ELSE 1 + Streak(script, a - 1)

----------------------------------------------------------------------------
(* Properties of the service pass: rate limiting and faults *)

\* the PUT requests sent under operation i of the pass
PutsOf(i) == {j \in DOMAIN requests : requests[j].op = i /\ requests[j].method = "PUT"}

\* operation i used up its retries
Exhausted(i) == ops[i].kind \in {"Update", "LabelRemove"} /\ Cardinality(PutsOf(i)) = MAX_RETRIES

\* the pass stopped in the handler of line 345
Aborted == \E i \in DOMAIN ops : ops[i].kind = "Abort"

WritesOf(i) == {j \in DOMAIN requests : requests[j].op = i /\ requests[j].method /= "GET"}

\* C16: in live mode an operation (Create, Update, label removal) that met no
\* rate limiting has sent exactly one write request
C16_OneWritePerOperation ==
    ~DRY_RUN =>
        \A i \in DOMAIN ops :
            (ops[i].kind \in {"Create", "Update", "LabelRemove"} /\ ~Exhausted(i))
                => Cardinality(WritesOf(i)) = 1

\* record r of the export carries a data fault: no sys_id, or a null name
Faulty(r) == ~Truthy(RGet(records[r], "sys_id")) \/ RGetD(records[r], "name", Unknown) = None

\* C19: a pass that got past its loads and has ended has handled every record of
\* the export; a record with a data fault was skipped and counted as an error or
\* an exclusion, and the pass returns the number of errors it counted
C19_RecordFaultIsLocal ==
    (pc = "done" /\ ops /= <<>>)
        => /\ \A r \in DOMAIN records :
                 \E i \in DOMAIN ops :
                     /\ ops[i].rec = r
                     /\ Faulty(r) => ops[i].kind \in {"Error", "Excluded"}
           /\ stats.returned = stats.errors

----------------------------------------------------------------------------
(* Properties of the paginated readers *)

\* C17: a reader that has received a page with no record has stopped with that
\* page: it has sent no other request, whether or not the page announced more
C17_StopsOnEmptyPage ==
    \A p \in 1..fetched :
        (~pages[p].fault /\ pages[p].size = 0) => (fetched = p /\ rpc = "done")

\* the records of the first n pages
RECURSIVE Accumulated(_, _)
Accumulated(script, n) ==
    IF n = 0 THEN <<>> ELSE Accumulated(script, n - 1) \o PageRecords(n, script[n])

\* C18: a reader whose request for a page after the first met a fault has
\* stopped and returned the records of the pages before it
C18_FaultKeepsEarlierPages ==
    (fetched > 1 /\ pages[fetched].fault)
        => (rpc = "done" /\ readResult = Accumulated(pages, fetched - 1))

----------------------------------------------------------------------------
(* Properties of the domain pass *)

\* the load of the mapping table met a fault: the page holds a table with data
\* rows, every one of which yields an entry, and the pass runs on an empty mapping
LoadFaulted ==
    /\ dompc \notin {"idle", "load"}
    /\ domains_data /= <<>>
    /\ page.table
    /\ page.rows /= <<>>
    /\ automation_table = <<>>

\* the requests of the pass that write: a field backfill or a table write
DomWrites == {i \in DOMAIN domRequests : domRequests[i].method = "PUT"}

\* C20: a pass whose load of the mapping table met a fault sends no field
\* backfill and no table write
C20_FaultedLoadShortCircuits == LoadFaulted => DomWrites = {}

----------------------------------------------------------------------------
(* Properties of a run in simulate mode *)

\* the requests of the service pass that write: every request but the search
\* POST and the user lookup
ServiceWrites ==
    {i \in DOMAIN requests : requests[i].method /= "GET" /\ requests[i].path /= "search/jql"}

\* what the remote systems hold: the tracked items, the option tree, the page
Remote == <<jira, tickets, remote_options, page>>

\* C11: in simulate mode no step of a run sends a write request (issue create or
\* update, comment, option create, update, delete or move, page update), and no
\* step changes what the remote systems hold
C11_SimulateWritesNothing ==
    [][/\ ServiceWrites' = {}
       /\ calls' = <<>>
       /\ DomWrites' = {}
       /\ Remote' = Remote]_vars

C11_Witness ==
    /\ DRY_RUN
    /\ MODE = "diagnostic"
    /\ dompc = "done"
    /\ DomRequest("POST", "search") \in {domRequests[i] : i \in DOMAIN domRequests}
    /\ \E i \in DOMAIN tickets :
          /\ tickets[i].domain = Fin
          /\ tickets[i].name = Pay
          /\ tickets[i].option_id = <<"8">>

\* C23: the domain pass never adds a row for a domain named "All" to the table
\* and never writes "All" into the domain field of a tracked item
C23_AllIsIgnored ==
    /\ \A i \in DOMAIN page.rows :
          page.rows[i].name \notin {domain_display(AllName, TRUE), domain_display(AllName, FALSE)}
    /\ \A i \in DOMAIN tickets : tickets[i].domain /= AllName

\* the rows of the table of the page for this domain identifier
RowsFor(sys_id) == {i \in DOMAIN page.rows : page.rows[i].sys_id = sys_id}

\* C36: the handling of one domain of the export appends at most one row for its
\* identifier to the table of the page
C36_DomainAddedOnce ==
    [][\A sys_id \in {RGet(domains_data[d], "sys_id") : d \in DOMAIN domains_data} :
          Cardinality(RowsFor(sys_id)') <= Cardinality(RowsFor(sys_id)) + 1]_vars

----------------------------------------------------------------------------
(* Properties of the cascade report and diff *)

\* C24: every row that log_full has written during the running execution is in
\* sync_report.csv
C24_ReportKeepsEveryRow ==
    \A i \in DOMAIN rows : \E j \in DOMAIN csv : csv[j] = rows[i]

\* C29: a target child gets an "OK" row only if a current child of that name is under
\* its parent with the same disabled flag as the target
C29_OkOnlyWhenFlagsAgree ==
    \A tc \in TargetChildren :
        LET parent_name == cascade_structure[tc[1]].k
            child == cascade_structure[tc[1]].v[tc[2]]
        IN  Logged("OK", parent_name, child.name) =>
                \E m \in CurrentChildren :
                    /\ normalize_name(ParentAt(m)) = normalize_name(parent_name)
                    /\ normalize_name(ChildAt(m).name) = normalize_name(child.name)
                    /\ ChildAt(m).disabled = child.disabled

\* the normalized names of the target children of a parent
TargetNamesOf(parent) ==
    {normalize_name(cascade_structure[tc[1]].v[tc[2]].name) :
        tc \in {t \in TargetChildren :
                   normalize_name(cascade_structure[t[1]].k) = normalize_name(parent)}}

\* a current child that is enabled and is no target child of its parent
ObsoleteChild(m) ==
    /\ ~ChildAt(m).disabled
    /\ normalize_name(ChildAt(m).name) \notin TargetNamesOf(ParentAt(m))

\* the requests the step sends
Sent == SubSeq(calls', Len(calls) + 1, Len(calls'))

\* C30: the sweep logs "To disable" for every enabled current child that is no target
\* child of its parent and, in apply mode, sends one PUT disabled=true on its id; the
\* sweep sends no DELETE, and every DELETE of the run is on a current option whose
\* normalized name is planned
C30_SweepDisablesNeverDeletes ==
    [][/\ (cpc = "sweep" /\ cpc' = "reorder") =>
            /\ \A m \in CurrentChildren :
                  ObsoleteChild(m) =>
                      /\ Logged("To disable", ParentAt(m), ChildAt(m).name)'
                      /\ MODE = "apply" =>
                            Cardinality({i \in DOMAIN Sent :
                                Sent[i] = SetDisabled(ChildAt(m).id, TRUE)}) = 1
            /\ \A i \in DOMAIN Sent : Sent[i].method /= "DELETE"
       /\ \A i \in DOMAIN calls' :
              calls'[i].method = "DELETE" =>
                  \E m \in CurrentChildren :
                      /\ ChildAt(m).id = calls'[i].id
                      /\ normalize_name(ChildAt(m).name) \in planned_services]_vars

C30_Witness ==
    /\ cpc = "reorder"
    /\ MODE = "apply"
    /\ \E i \in DOMAIN calls : calls[i].method = "DELETE"
    /\ \E m \in CurrentChildren :
          /\ ObsoleteChild(m)
          /\ normalize_name(ChildAt(m).name) \notin planned_services
          /\ Logged("To disable", ParentAt(m), ChildAt(m).name)
          /\ \E i \in DOMAIN calls : calls[i] = SetDisabled(ChildAt(m).id, TRUE)

\* the current children of a target child: same normalized name, under a parent with
\* the normalized name of the target parent
UnderOwnParent(tc) ==
    {m \in CurrentChildren :
        /\ normalize_name(ParentAt(m)) = normalize_name(cascade_structure[tc[1]].k)
        /\ normalize_name(ChildAt(m).name) =
               normalize_name(cascade_structure[tc[1]].v[tc[2]].name)}

\* C31: when the run is over, an enabled target child that is under its own parent and
\* disabled there has a "To reactivate" row and, in apply mode, exactly one PUT
\* disabled=false and no PUT disabled=true on the id of that option
C31_DisabledIsReactivated ==
    cpc = "done" =>
        \A tc \in TargetChildren :
            \A m \in UnderOwnParent(tc) :
                (~cascade_structure[tc[1]].v[tc[2]].disabled /\ ChildAt(m).disabled) =>
                    /\ Logged("To reactivate", cascade_structure[tc[1]].k,
                              cascade_structure[tc[1]].v[tc[2]].name)
                    /\ MODE = "apply" =>
                          /\ Cardinality({i \in DOMAIN calls :
                                 calls[i] = SetDisabled(ChildAt(m).id, FALSE)}) = 1
                          /\ \A i \in DOMAIN calls :
                                 calls[i] /= SetDisabled(ChildAt(m).id, TRUE)

\* C32: a current child whose normalized name is among the target children of the
\* target parent named like its current parent, case and outer blanks apart, has no
\* "To disable" row
C32_SweepMatchesNormalizedParent ==
    \A m \in CurrentChildren :
        normalize_name(ChildAt(m).name) \in TargetNamesOf(ParentAt(m)) =>
            ~Logged("To disable", ParentAt(m), ChildAt(m).name)

\* C33: when the run is over, a target child that is under its own parent in the current
\* tree has neither a "To move" nor a "To add" row, and no POST of the run names a parent
\* and a value that a current child of that parent already has, case and blanks apart
C33_PresentChildIsNotCreated ==
    cpc = "done" =>
        /\ \A tc \in TargetChildren :
              UnderOwnParent(tc) /= {} =>
                  /\ ~Logged("To move", cascade_structure[tc[1]].k,
                             cascade_structure[tc[1]].v[tc[2]].name)
                  /\ ~Logged("To add", cascade_structure[tc[1]].k,
                             cascade_structure[tc[1]].v[tc[2]].name)
        /\ \A i \in DOMAIN calls :
              calls[i].method = "POST" =>
                  \A m \in CurrentChildren :
                      ~ /\ current_structure[m[1]].v.id = calls[i].payload.optionId
                        /\ normalize_name(ChildAt(m).name) =
                               normalize_name(calls[i].payload.value)

\* the target parents that no parent of the current tree is named like
MissingParents ==
    {t \in DOMAIN cascade_structure :
        JiraParents(current_structure, normalize_name(cascade_structure[t].k)) = {}}

\* C38: every POST of the run names a parent of the current tree that is named like the
\* target parent of a target child of that value, case and outer blanks apart; a target
\* parent that is not in the current tree has one "Parent missing" row once the diff
\* is over and no "To add", "To move" or "To reactivate" row
C38_CreatesUnderExistingParent ==
    /\ \A i \in DOMAIN calls :
          calls[i].method = "POST" =>
              \E p \in DOMAIN current_structure, tc \in TargetChildren :
                  /\ current_structure[p].v.id = calls[i].payload.optionId
                  /\ normalize_name(current_structure[p].k) =
                         normalize_name(cascade_structure[tc[1]].k)
                  /\ cascade_structure[tc[1]].v[tc[2]].name = calls[i].payload.value
    /\ \A t \in MissingParents :
          /\ cpc \in {"sweep", "reorder", "done"} =>
                Cardinality({i \in DOMAIN rows :
                    /\ rows[i].parent = cascade_structure[t].k
                    /\ rows[i].status = "Parent missing"}) = 1
          /\ \A i \in DOMAIN rows :
                rows[i].parent = cascade_structure[t].k =>
                    rows[i].status \notin {"To add", "To move", "To reactivate"}

C38_Witness ==
    /\ cpc = "done"
    /\ MODE = "apply"
    /\ MissingParents /= {}
    /\ \A t \in MissingParents : cascade_structure[t].v /= <<>>
    /\ \E i \in DOMAIN calls : calls[i].method = "POST"

----------------------------------------------------------------------------
(* Properties of the service pass: loads, payloads, cleanup *)

\* the step that loads the tracked items and gets an empty identifier index
\* (the search failed, or no item carries an identifier)
LoadFailed == pc = "start" /\ issues_cache' = <<>>

\* the step that cannot read the export file
ExportUnreadable == pc = "json" /\ failures' = failures + 1

\* C21: a pass that cannot load the tracked items, or cannot read the export,
\* ends at that step: it has sent nothing but the search, has performed no
\* operation, and returns a non-zero error count
C21_LoadFaultShortCircuits ==
    [][(LoadFailed \/ ExportUnreadable)
          => /\ pc' = "done"
             /\ stats'.returned > 0
             /\ ops' = <<>>
             /\ \A i \in DOMAIN requests' : requests'[i].path = "search/jql"]_vars

C21_Witness ==
    /\ pc = "done"
    /\ issues_cache /= <<>>
    /\ failures = 1
    /\ ops = <<>>
    /\ stats.returned = 1
    /\ records /= <<>>

----------------------------------------------------------------------------
(* Properties of the mapping cache *)

\* the last call came before the end of the window of the load before it
InWindow == lastCall[1].at - lastCall[1].prior[1].at < CACHE_DURATION

\* C22: after a load that succeeded, a call without force_refresh made less than
\* CACHE_DURATION after it fetches nothing and returns the mapping of that load;
\* a call made at the end of the window or later, or with force_refresh, fetches
C22_CacheWindow ==
    (lastCall /= <<>> /\ lastCall[1].prior /= <<>>)
        => LET call == lastCall[1]
           IN  IF ~call.force_refresh /\ InWindow
               THEN ~call.fetched /\ call.result = call.prior[1].mapping
               ELSE call.fetched

\* a call 299 after the load returns the mapping of the load although the page
\* has changed since
C22_Witness ==
    /\ lastCall /= <<>>
    /\ lastCall[1].prior /= <<>>
    /\ lastCall[1].at - lastCall[1].prior[1].at = 299
    /\ ~lastCall[1].fetched
    /\ lastCall[1].result /= load_automation_rules_table_from_confluence(page, FALSE)

\* C39: a call that fetches and returns an empty mapping leaves the cached mapping and
\* its timestamp as they were, and the cache never holds an empty mapping
C39_EmptyResultIsNotCached ==
    [][/\ (/\ lastCall' /= lastCall
           /\ lastCall' /= <<>>
           /\ lastCall'[1].fetched
           /\ lastCall'[1].result = <<>>)
              => UNCHANGED <<_DOMAIN_CACHE, _CACHE_TIMESTAMP>>
       /\ _DOMAIN_CACHE' /= <<>> => _DOMAIN_CACHE'[1] /= <<>>]_vars

----------------------------------------------------------------------------
(* Properties of the payloads of the service pass *)

\* the fields of a payload that come from the comparison with the record
ComparedIn(payload) == DOMAIN payload.fields \ {"assignee", "reporter"}

\* C25: the payload of an Update adds the verification label, and it carries
\* the dated comment exactly when the comparison found a field to write
C25_CommentIffDifference ==
    \A i \in DOMAIN ops :
        ops[i].kind = "Update"
            => /\ VERIFICATION_LABEL \in ops[i].payload.labels_add
               /\ ops[i].payload.comment <=> ComparedIn(ops[i].payload) /= {}

\* C26: the payload of every Update and of every Create clears the assignee and
\* sets the reporter to the account of the mandatory reporter
C26_AssigneeAndReporterForced ==
    \A i \in DOMAIN ops :
        ops[i].kind \in {"Update", "Create"}
            => LET fields == ops[i].payload.fields
               IN  /\ "assignee" \in DOMAIN fields
                   /\ fields["assignee"] = None
                   /\ "reporter" \in DOMAIN fields
                   /\ fields["reporter"] = AccountId

\* trim, blank to null
Trimmed(v) == IF v = None \/ Strip(v) = <<>> THEN None ELSE Strip(v)

\* the target value of a compared field: the record's value, the status mapped
\* through the enumeration
TargetOf(field, record) ==
    LET at == (CHOOSE i \in DOMAIN field_mappings :
                         field_mappings[i].field = field)
        raw == RGet(record, field_mappings[at].json_key)
    IN  Trimmed(IF field = "business_service_status" /\ raw /= None
                THEN map_operational_status(raw) ELSE raw)

\* the step handles a record with an Update
UpdateStep ==
    /\ pc = "process"
    /\ Len(ops') = Len(ops) + 1
    /\ ops'[Len(ops')].kind = "Update"

\* the tracked item the step compares the record with
ComparedItem ==
    LookupExisting(issues_cache, name_cache, RGet(records[idx], "sys_id"),
                   RGetD(records[idx], "name", Unknown))[1]

\* C27: every compared field that an Update writes differs, after trimming and
\* blank-to-null on both sides, between the tracked item and the record
C27_WritesOnlyDifferences ==
    [][UpdateStep =>
          \A k \in ComparedIn(ops'[Len(ops')].payload) \ {"summary"} :
              Trimmed(ComparedItem.fields[k]) /= TargetOf(k, records[idx])]_vars

\* an Update that writes the status, which differs, and not the name, which does not
C27_Witness ==
    /\ ops /= <<>>
    /\ ops[Len(ops)].kind = "Update"
    /\ ComparedIn(ops[Len(ops)].payload) = {"business_service_status", "summary"}
    /\ RGet(records[ops[Len(ops)].rec], "name") = Pay

----------------------------------------------------------------------------
(* Properties of the cleanup of the service pass *)

\* the pass has ended and both of its loads succeeded
LoadsSucceeded ==
    /\ pc = "done"
    /\ issues_cache /= <<>>
    /\ ~(ops = <<>> /\ stats.returned = 1)

\* the keys of the tracked items that carried the verification label when the
\* pass loaded them and whose identifier is not in the export
Obsolete ==
    {issues_cache[j].v.key :
        j \in {i \in DOMAIN issues_cache :
                 /\ VERIFICATION_LABEL \in issues_cache[i].v.labels
                 /\ issues_cache[i].k \notin json_sys_ids(records)}}

\* the label removals of the pass for the tracked item with this key
RemovalsOf(key) == {i \in OpsOf({"LabelRemove"}) : ops[i].key = key}

\* C28: a pass that has loaded the tracked items and the export gives every
\* obsolete labelled item exactly one label removal, and it sends no DELETE
C28_ObsoleteLoseLabelOnce ==
    /\ \A i \in DOMAIN requests : requests[i].method /= "DELETE"
    /\ LoadsSucceeded => \A key \in Obsolete : Cardinality(RemovalsOf(key)) = 1

\* C34: no two Updates of a pass are on the same tracked item
C34_OneUpdatePerItem ==
    \A i, j \in OpsOf({"Update"}) : ops[i].key = ops[j].key => i = j

\* C35: no tracked item has, in one pass, both an Update that adds the verification
\* label and a label removal of the cleanup
C35_UpdatedIsNotCleaned ==
    \A i \in OpsOf({"Update"}) :
        VERIFICATION_LABEL \in ops[i].payload.labels_add =>
            \A j \in OpsOf({"LabelRemove"}) : ops[j].key /= ops[i].key

\* C37: a pass sends at most one user search for the mandatory reporter
C37_ReporterLookedUpOnce ==
    Cardinality({i \in DOMAIN requests : requests[i].path = "user/search"}) <= 1

============================================================================
